---- MODULE Spec2Model ----
(***************************************************************************)
(* Actuator node of the rover (CmdCtrl_Main): the cooperative control      *)
(* loop, its two line framers, the command interpreter, the dead-man       *)
(* failsafe, the motor and servo ramps and the status LEDs.                *)
(*                                                                         *)
(* Characters are one-character strings; a C string is the sequence of its *)
(* characters before the terminating NUL.  Servo speeds and angles are     *)
(* binary32 floats, held as exact counts of 2^-28 and rounded as the       *)
(* hardware rounds them.  millis() is the variable clock.                  *)
(***************************************************************************)
EXTENDS Integers, Sequences, FiniteSets, TLC

VARIABLES
    clock,                   \* millis()
    pc,                      \* position of the single execution context
    now,                     \* loop()'s local time sample
    lastCommandTime, lastMotorTime, lastServoTime,
    failsafeTriggered,
    isLeftMotorActive, isRightMotorActive,
    serialCommunicationFlag,
    servoCommands,           \* char servoCommands[6]
    leftMotor, rightMotor,   \* Motor objects
    controller,              \* ServoController object
    usbBuffer, usbIndex, radioBuffer, radioIndex,
    usbStream, radioStream,  \* bytes available on Serial / APC220
    events,                  \* codes handed to transmitCode, in order
    ledSys,                  \* LedController private state
    pins,                    \* last level written to each LED pin
    \* history variables: they record what happened and steer nothing
    wdtFeeds,                \* wdt.feed() calls of the current iteration
    dispatched,              \* processCommand calls of the current iteration
    held,                    \* a trip happened and no well-formed line came since
    inputs,                  \* bursts received (or unit calls made) so far
    op                       \* the method a unit-level step called

timers == <<lastCommandTime, lastMotorTime, lastServoTime>>
motors == <<leftMotor, rightMotor, isLeftMotorActive, isRightMotorActive>>
framers == <<usbBuffer, usbIndex, radioBuffer, radioIndex>>
streams == <<usbStream, radioStream>>
leds == <<ledSys, pins>>

vars == <<clock, pc, now, timers, failsafeTriggered, serialCommunicationFlag,
          servoCommands, motors, controller, framers, streams, events, leds,
          wdtFeeds, dispatched, held, inputs, op>>

(***************************************************************************)
(* Program constants                                                       *)
(***************************************************************************)
MOTOR_INTERVAL == 10
SERVO_INTERVAL == 20
FAILSAFE_TIMEOUT == 500
MAX_CMD_LEN == 32
numServos == 6
DefaultPwmStep == 5
PwmLimit == 255
AngleLimit == 180
CenterAngle == 90
\* float accel = 0.05, float decel = 0.05: the binary32 value nearest 0.05 is
\* 13421773 * 2^-28
DefaultAccel == 13421773
DefaultDecel == 13421773
\* abs(speeds[i]) > 0.01, the comparison made in double: 0.01 lies between
\* 2684354 * 2^-28 and 2684355 * 2^-28
ActiveThreshold == 2684354
servoMin == 150
servoMax == 600
SCAN_SPEED == 100
PIN24_SPEED == 50
HEARTBEAT_SPEED == 500
BLINK_SPEED == 100
BeginDelay == 10

SYS_BOOT_START == 1000
SYS_BOOT_COMPLETE == 1001
ACT_INIT_START == 2000
ACT_MOTORS_READY == 2001
ACT_SERVOS_READY == 2002
SAFE_FAILSAFE_TRIGGER == 4005
SAFE_FAILSAFE_CLEAR == 4006
ERR_WATCHDOG_RESET == 5007

\* unsigned long arithmetic: differences of time stamps are taken modulo
\* ClockMod.  The source's width is 32 bits; the checker's integers are 32-bit
\* signed, so the modulus is 2^30 here (every interval compared is far below it).
ClockMod == 2^30

\* the difference taken in signed arithmetic
USubSigned(a, b) == a - b

USub(a, b) == (a - b) % ClockMod

Min(a, b) == IF a < b THEN a ELSE b
Max(a, b) == IF a > b THEN a ELSE b
\* Arduino constrain(x, lo, hi)
Constrain(x, lo, hi) == IF x < lo THEN lo ELSE IF x > hi THEN hi ELSE x
Abs(x) == IF x < 0 THEN -x ELSE x

(***************************************************************************)
(* float (binary32).  A float is held as the integer count of 2^-28 it     *)
(* equals: every value the controller computes from steps that are         *)
(* multiples of 2^-28 is such a count.  An operation gives the exact       *)
(* result rounded to 24 significant bits, ties to even.                    *)
(***************************************************************************)
FloatOne == 2^28
Significand == 2^24

\* F applied to the value of e, which is evaluated once
Eval(F(_), e) == CHOOSE r \in {F(v) : v \in {e}} : TRUE

\* the least power of two g with a \div g < limit, for a below 2^14 * limit
PowersOfTwo == {2^k : k \in 0..14}
Spacing(a, limit) ==
    CHOOSE g \in PowersOfTwo :
        a \div g < limit /\ (g = 1 \/ a \div (g \div 2) >= limit)

\* a rounded to a multiple of g, ties to the even multiple
RoundTo(a, g) ==
    LET q == a \div g
        r == a % g
    IN  (IF 2 * r > g \/ (2 * r = g /\ q % 2 = 1) THEN q + 1 ELSE q) * g

RoundMagnitude(a) == Eval(LAMBDA g : RoundTo(a, g), Spacing(a, Significand))

RoundFloat(x) ==
    Eval(LAMBDA v : IF v < 0 THEN -RoundMagnitude(-v) ELSE RoundMagnitude(v), x)

FloatAdd(x, y) == RoundFloat(x + y)
FloatSub(x, y) == RoundFloat(x - y)
\* the product of two floats that are multiples of 2^-14 (1.0 and 2.0 are)
FloatMul(x, y) == RoundFloat((x \div 2^14) * (y \div 2^14))

\* An angle reaches 180, beyond the counts a machine integer holds: it is
\* held in two limbs, hi * 2^-14 + lo * 2^-28 with 0 <= lo < 2^14.
Limb == 2^14
Angle(degrees) == [hi |-> degrees * Limb, lo |-> 0]

\* hi * 2^-14 + lo * 2^-28 rounded to a float, for hi >= 0
RoundAngle(hi, lo) ==
    Eval(LAMBDA m : IF m = Limb THEN [hi |-> hi + 1, lo |-> 0]
                    ELSE [hi |-> hi, lo |-> m],
         Eval(LAMBDA g : RoundTo(lo, g), Spacing(hi, Significand \div Limb)))

\* angle + speed in float; a negative sum is returned unrounded
AngleAdd(a, s) ==
    Eval(LAMBDA sum :
             IF a.hi + (sum \div Limb) < 0
             THEN [hi |-> a.hi + (sum \div Limb), lo |-> sum % Limb]
             ELSE RoundAngle(a.hi + (sum \div Limb), sum % Limb),
         a.lo + s)

\* the angle left as the sum gave it
AngleUnconstrained(a) == a

\* constrain(angle, 0, 180)
AngleConstrain(a) ==
    Eval(LAMBDA v :
             IF v.hi < 0 THEN Angle(0)
             ELSE IF v.hi > AngleLimit * Limb \/ (v.hi = AngleLimit * Limb /\ v.lo > 0)
             THEN Angle(AngleLimit)
             ELSE v,
         a)

\* (int)angle of an angle that is not negative
AngleInt(a) == a.hi \div Limb

(***************************************************************************)
(* Characters                                                              *)
(***************************************************************************)
NUL == "NUL"
LF == "\n"
CR == "\r"
DigitChars == <<"0", "1", "2", "3", "4", "5", "6", "7", "8", "9">>
IsDigit(c) == \E i \in 1..10 : DigitChars[i] = c
DigitVal(c) == (CHOOSE i \in 1..10 : DigitChars[i] = c) - 1
\* ASCII code of the characters the inputs use
Ord(c) ==
    IF IsDigit(c) THEN 48 + DigitVal(c)
    ELSE CASE c = NUL -> 0
           [] c = LF -> 10
           [] c = CR -> 13
           [] c = " " -> 32
           [] c = "+" -> 43
           [] c = "," -> 44
           [] c = "-" -> 45
           [] c = "L" -> 76
           [] c = "Q" -> 81
           [] c = "R" -> 82
           [] c = "S" -> 83
           [] c = "X" -> 88
\* cmd[i] of a NUL-terminated string held in a zeroed buffer
CharAt(cmd, i) == IF i < Len(cmd) THEN cmd[i + 1] ELSE NUL

(***************************************************************************)
(* Motor (MotorDriver)                                                     *)
(***************************************************************************)
\* Motor::Motor, then Motor::begin, which ends in emergencyStop()
NewMotor(step) ==
    [targetPWM |-> 0, currentPWM |-> 0, pwmStep |-> step, rpwm |-> 0, lpwm |-> 0]

\* the value stored as it came
MotorSetTargetUnclamped(m, pwm) == [m EXCEPT !.targetPWM = pwm]

MotorSetTarget(m, pwm) ==
    [m EXCEPT !.targetPWM = Constrain(pwm, -PwmLimit, PwmLimit)]

\* the ramp without the clamp to the target
MotorRampNoClamp(m) ==
    IF m.currentPWM < m.targetPWM THEN m.currentPWM + m.pwmStep
    ELSE IF m.currentPWM > m.targetPWM THEN m.currentPWM - m.pwmStep
    ELSE m.currentPWM

\* the ramp of Motor::update
MotorRamp(m) ==
    IF m.currentPWM < m.targetPWM THEN Min(m.currentPWM + m.pwmStep, m.targetPWM)
    ELSE IF m.currentPWM > m.targetPWM THEN Max(m.currentPWM - m.pwmStep, m.targetPWM)
    ELSE m.currentPWM

\* the current written to the forward line whatever its sign
MotorDriveForwardOnly(m) == [m EXCEPT !.rpwm = m.currentPWM, !.lpwm = 0]

\* the two analogWrite calls of Motor::update
MotorDrive(m) ==
    IF m.currentPWM >= 0
    THEN [m EXCEPT !.rpwm = m.currentPWM, !.lpwm = 0]
    ELSE [m EXCEPT !.rpwm = 0, !.lpwm = -m.currentPWM]

\* the outputs written with no ramp step taken
MotorUpdateHeld(m) == MotorDrive(m)

MotorUpdate(m) == MotorDrive([m EXCEPT !.currentPWM = MotorRamp(m)])

\* a stop that leaves the two PWM lines as they were
MotorEmergencyStopKeepsOutput(m) == [m EXCEPT !.targetPWM = 0, !.currentPWM = 0]

\* a stop that ramps: the target zeroed and one ramp step taken
MotorEmergencyStopRamped(m) == MotorUpdate([m EXCEPT !.targetPWM = 0])

\* a stop that zeroes the output and keeps the target
MotorEmergencyStopKeepsTarget(m) ==
    [m EXCEPT !.currentPWM = 0, !.rpwm = 0, !.lpwm = 0]

MotorEmergencyStop(m) ==
    [m EXCEPT !.targetPWM = 0, !.currentPWM = 0, !.rpwm = 0, !.lpwm = 0]

(***************************************************************************)
(* ServoController                                                         *)
(***************************************************************************)
Joints == 1..numServos

NewServoController(acc, dec) ==
    [angles |-> [i \in Joints |-> Angle(CenterAngle)],
     speeds |-> [i \in Joints |-> 0],
     sensitivity |-> [i \in Joints |-> FloatOne],
     maxSpeed |-> 2 * FloatOne,
     accel |-> acc,
     decel |-> dec,
     pulse |-> [i \in Joints |-> 0]]

\* a stop that also returns every joint to the centre
ServoEmergencyStopRecentred(c) ==
    [c EXCEPT !.speeds = [i \in Joints |-> 0],
              !.angles = [i \in Joints |-> Angle(CenterAngle)]]

ServoEmergencyStop(c) == [c EXCEPT !.speeds = [i \in Joints |-> 0]]

\* abs(speeds[i]) > 0.01 for some joint
ServoIsActive(c) == \E i \in Joints : Abs(c.speeds[i]) > ActiveThreshold

\* map(angle, 0, 180, servoMin, servoMax) on the integer part of the angle
AngleToPulse(angle) ==
    (angle * (servoMax - servoMin)) \div AngleLimit + servoMin

ServoTargetSpeed(c, i, cmd) ==
    IF cmd = "L" THEN FloatMul(-c.maxSpeed, c.sensitivity[i])
    ELSE IF cmd = "R" THEN FloatMul(c.maxSpeed, c.sensitivity[i])
    ELSE 0

\* the ramp without the clamp to the target speed
ServoRampNoClamp(speed, targetSpeed, acc, dec) ==
    IF speed < targetSpeed THEN FloatAdd(speed, acc)
    ELSE IF speed > targetSpeed THEN FloatSub(speed, dec)
    ELSE speed

\* the ramp of ServoController::update
ServoRamp(speed, targetSpeed, acc, dec) ==
    IF speed < targetSpeed THEN Min(FloatAdd(speed, acc), targetSpeed)
    ELSE IF speed > targetSpeed THEN Max(FloatSub(speed, dec), targetSpeed)
    ELSE speed

\* the speed set to its target at once
ServoNextSpeedInstant(c, i, cmd) == ServoTargetSpeed(c, i, cmd)

ServoNextSpeed(c, i, cmd) ==
    Eval(LAMBDA target : ServoRamp(c.speeds[i], target, c.accel, c.decel),
         ServoTargetSpeed(c, i, cmd))

\* one pass of the loop body: the joint's new speed, angle and pulse
JointUpdate(c, i, cmd) ==
    Eval(LAMBDA angle : [speed |-> angle[1], angle |-> angle[2],
                         pulse |-> AngleToPulse(AngleInt(angle[2]))],
         Eval(LAMBDA speed : <<speed, AngleConstrain(AngleAdd(c.angles[i], speed))>>,
              ServoNextSpeed(c, i, cmd)))

\* for (int i = 0; i < numServos; i++), from joint i on
RECURSIVE JointUpdates(_, _, _)
JointUpdates(c, commands, i) ==
    IF i > numServos THEN <<>>
    ELSE <<JointUpdate(c, i, commands[i])>> \o JointUpdates(c, commands, i + 1)

ServoUpdate(c, commands) ==
    Eval(LAMBDA next :
             [c EXCEPT !.speeds = [i \in Joints |-> next[i].speed],
                       !.angles = [i \in Joints |-> next[i].angle],
                       !.pulse = [i \in Joints |-> next[i].pulse]],
         JointUpdates(c, commands, 1))

(***************************************************************************)
(* C library: atoi and strtok on the characters of the line                *)
(***************************************************************************)
RECURSIVE AtoiDigits(_, _, _)
AtoiDigits(s, i, acc) ==
    IF i > Len(s) \/ ~IsDigit(s[i]) THEN acc
    ELSE AtoiDigits(s, i + 1, acc * 10 + DigitVal(s[i]))

RECURSIVE SkipSpaces(_, _)
SkipSpaces(s, i) ==
    IF i <= Len(s) /\ s[i] = " " THEN SkipSpaces(s, i + 1) ELSE i

\* atoi: leading blanks, an optional sign, then the leading digits (0 if none)
Atoi(s) ==
    Eval(LAMBDA str :
             LET i == SkipSpaces(str, 1) IN
             IF i <= Len(str) /\ str[i] = "-" THEN -AtoiDigits(str, i + 1, 0)
             ELSE IF i <= Len(str) /\ str[i] = "+" THEN AtoiDigits(str, i + 1, 0)
             ELSE AtoiDigits(str, i, 0),
         s)

RECURSIVE SkipDelims(_, _)
SkipDelims(s, i) ==
    IF i <= Len(s) /\ s[i] = "," THEN SkipDelims(s, i + 1) ELSE i

RECURSIVE TokenEnd(_, _)
TokenEnd(s, i) ==
    IF i <= Len(s) /\ s[i] # "," THEN TokenEnd(s, i + 1) ELSE i

\* strtok(.., ","), scanning from position i: found is FALSE for a NULL result,
\* otherwise tok is the token and next the position the following call scans from
Strtok(s, i) ==
    Eval(LAMBDA a :
             LET b == SkipDelims(a.s, a.i) IN
             IF b > Len(a.s) THEN [found |-> FALSE, tok |-> <<>>, next |-> b]
             ELSE LET e == TokenEnd(a.s, b) IN
                  [found |-> TRUE, tok |-> SubSeq(a.s, b, e - 1), next |-> e + 1],
         [s |-> s, i |-> i])

(***************************************************************************)
(* Command interpreter and line framer.  They run inside one loop step, so *)
(* they are functions of the record S of the globals they touch.           *)
(***************************************************************************)
\* transmitCode(code)
TransmitCode(S, code) == [S EXCEPT !.events = Append(S.events, code)]

\* the clear event sent on every command
ResetFailsafeAlwaysClears(S, t) ==
    TransmitCode([S EXCEPT !.lastCommandTime = t, !.failsafeTriggered = FALSE],
                 SAFE_FAILSAFE_CLEAR)

\* lines 39-43 of processCommand: the failsafe timer and flag
ResetFailsafe(S, t) ==
    LET S1 == [S EXCEPT !.lastCommandTime = t] IN
    IF S1.failsafeTriggered
    THEN TransmitCode([S1 EXCEPT !.failsafeTriggered = FALSE], SAFE_FAILSAFE_CLEAR)
    ELSE S1

\* the joint index taken as 0-based
ServoCommandZeroBased(S, cmd) ==
    LET idx == Ord(CharAt(cmd, 1)) - Ord("0")
        dir == CharAt(cmd, 2)
    IN  IF idx >= 0 /\ idx < numServos
        THEN [S EXCEPT !.servoCommands[idx + 1] =
                           IF dir = "L" \/ dir = "R" THEN dir ELSE NUL]
        ELSE S

\* a direction character other than 'L' or 'R' ignored
ServoCommandIgnoresOther(S, cmd) ==
    LET idx == Ord(CharAt(cmd, 1)) - Ord("1")
        dir == CharAt(cmd, 2)
    IN  IF idx >= 0 /\ idx < numServos /\ (dir = "L" \/ dir = "R")
        THEN [S EXCEPT !.servoCommands[idx + 1] = dir]
        ELSE S

\* lines 46-52: the 'S' branch
ServoCommand(S, cmd) ==
    LET idx == Ord(CharAt(cmd, 1)) - Ord("1")
        dir == CharAt(cmd, 2)
    IN  IF idx >= 0 /\ idx < numServos
        THEN [S EXCEPT !.servoCommands[idx + 1] =
                           IF dir = "L" \/ dir = "R" THEN dir ELSE NUL]
        ELSE S

\* both flags taken from the left value
MotorCommandFlagsFromLeft(S, cmd) ==
    LET t1 == Strtok(cmd, 1) IN
    IF ~t1.found THEN S
    ELSE LET leftVal == Atoi(t1.tok)
             t2 == Strtok(cmd, t1.next)
         IN  IF ~t2.found THEN S
             ELSE LET rightVal == Atoi(t2.tok) IN
                  [S EXCEPT !.leftMotor = MotorSetTarget(S.leftMotor, leftVal),
                            !.rightMotor = MotorSetTarget(S.rightMotor, rightVal),
                            !.isLeftMotorActive = (leftVal # 0),
                            !.isRightMotorActive = (leftVal # 0)]

\* lines 54-68: the strtok/atoi branch
MotorCommand(S, cmd) ==
    LET t1 == Strtok(cmd, 1) IN
    IF ~t1.found THEN S
    ELSE LET leftVal == Atoi(t1.tok)
             t2 == Strtok(cmd, t1.next)
         IN  IF ~t2.found THEN S
             ELSE LET rightVal == Atoi(t2.tok) IN
                  [S EXCEPT !.leftMotor = MotorSetTarget(S.leftMotor, leftVal),
                            !.rightMotor = MotorSetTarget(S.rightMotor, rightVal),
                            !.isLeftMotorActive = (leftVal # 0),
                            !.isRightMotorActive = (rightVal # 0)]

\* processCommand(cmd) with millis() = t
ProcessCommand(S, cmd, t) ==
    Eval(LAMBDA a :
             LET S1 == [ResetFailsafe(a.S, t) EXCEPT
                          !.dispatched = Append(a.S.dispatched,
                                                [cmd |-> a.cmd,
                                                 tripped |-> a.S.failsafeTriggered])] IN
             IF CharAt(a.cmd, 0) = "S" THEN ServoCommand(S1, a.cmd)
             ELSE MotorCommand(S1, a.cmd),
         [S |-> S, cmd |-> cmd])

\* a terminator dispatches whatever the buffer holds, an empty line too
RECURSIVE CheckInputDispatchesEmpty(_, _, _, _, _)
CheckInputDispatchesEmpty(S, buffer, index, stream, t) ==
    IF stream = <<>> THEN [S |-> S, buffer |-> buffer, index |-> index]
    ELSE LET c == Head(stream) IN
         IF c = LF \/ c = CR
         THEN CheckInputDispatchesEmpty(ProcessCommand(S, SubSeq(buffer, 1, index), t),
                                        <<>>, 0, Tail(stream), t)
         ELSE IF index < MAX_CMD_LEN - 1
              THEN CheckInputDispatchesEmpty(S, Append(buffer, c), index + 1,
                                             Tail(stream), t)
              ELSE CheckInputDispatchesEmpty(S, buffer, index, Tail(stream), t)

\* every byte appended, whatever the buffer already holds
RECURSIVE CheckInputNoLimit(_, _, _, _, _)
CheckInputNoLimit(S, buffer, index, stream, t) ==
    IF stream = <<>> THEN [S |-> S, buffer |-> buffer, index |-> index]
    ELSE LET c == Head(stream) IN
         IF c = LF \/ c = CR
         THEN IF index > 0
              THEN CheckInputNoLimit(ProcessCommand(S, SubSeq(buffer, 1, index), t),
                                     <<>>, 0, Tail(stream), t)
              ELSE CheckInputNoLimit(S, buffer, index, Tail(stream), t)
         ELSE CheckInputNoLimit(S, Append(buffer, c), index + 1, Tail(stream), t)

\* the loop left after the first dispatch
RECURSIVE CheckInputOneLine(_, _, _, _, _)
CheckInputOneLine(S, buffer, index, stream, t) ==
    IF stream = <<>> THEN [S |-> S, buffer |-> buffer, index |-> index]
    ELSE LET c == Head(stream) IN
         IF c = LF \/ c = CR
         THEN IF index > 0
              THEN [S |-> ProcessCommand(S, SubSeq(buffer, 1, index), t),
                    buffer |-> <<>>, index |-> 0]
              ELSE CheckInputOneLine(S, buffer, index, Tail(stream), t)
         ELSE IF index < MAX_CMD_LEN - 1
              THEN CheckInputOneLine(S, Append(buffer, c), index + 1, Tail(stream), t)
              ELSE CheckInputOneLine(S, buffer, index, Tail(stream), t)

\* a full buffer dispatched as a line without waiting for its terminator
RECURSIVE CheckInputDispatchesFull(_, _, _, _, _)
CheckInputDispatchesFull(S, buffer, index, stream, t) ==
    IF stream = <<>> THEN [S |-> S, buffer |-> buffer, index |-> index]
    ELSE LET c == Head(stream) IN
         IF c = LF \/ c = CR
         THEN IF index > 0
              THEN CheckInputDispatchesFull(ProcessCommand(S, SubSeq(buffer, 1, index), t),
                                            <<>>, 0, Tail(stream), t)
              ELSE CheckInputDispatchesFull(S, buffer, index, Tail(stream), t)
         ELSE IF index < MAX_CMD_LEN - 1
              THEN CheckInputDispatchesFull(S, Append(buffer, c), index + 1,
                                            Tail(stream), t)
              ELSE CheckInputDispatchesFull(ProcessCommand(S, SubSeq(buffer, 1, index), t),
                                            <<c>>, 1, Tail(stream), t)

\* checkInput(stream, buffer, index): one turn of the while loop per byte
RECURSIVE CheckInput(_, _, _, _, _)
CheckInput(S, buffer, index, stream, t) ==
    IF stream = <<>> THEN [S |-> S, buffer |-> buffer, index |-> index]
    ELSE LET c == Head(stream) IN
         IF c = LF \/ c = CR
         THEN IF index > 0
              THEN CheckInput(ProcessCommand(S, SubSeq(buffer, 1, index), t),
                              <<>>, 0, Tail(stream), t)
              ELSE CheckInput(S, buffer, index, Tail(stream), t)
         ELSE IF index < MAX_CMD_LEN - 1
              THEN CheckInput(S, Append(buffer, c), index + 1, Tail(stream), t)
              ELSE CheckInput(S, buffer, index, Tail(stream), t)

\* the globals processCommand reads and writes
CmdState ==
    [lastCommandTime |-> lastCommandTime,
     failsafeTriggered |-> failsafeTriggered,
     events |-> events,
     servoCommands |-> servoCommands,
     leftMotor |-> leftMotor,
     rightMotor |-> rightMotor,
     isLeftMotorActive |-> isLeftMotorActive,
     isRightMotorActive |-> isRightMotorActive,
     dispatched |-> dispatched]

SetCmdState(S) ==
    /\ lastCommandTime' = S.lastCommandTime
    /\ failsafeTriggered' = S.failsafeTriggered
    /\ events' = S.events
    /\ servoCommands' = S.servoCommands
    /\ leftMotor' = S.leftMotor
    /\ rightMotor' = S.rightMotor
    /\ isLeftMotorActive' = S.isLeftMotorActive
    /\ isRightMotorActive' = S.isRightMotorActive
    /\ dispatched' = S.dispatched

(***************************************************************************)
(* LedController.  L is the record [led, pins]: the private state and the  *)
(* last level written to each pin.                                         *)
(***************************************************************************)
NewLedController ==
    [lastScanTime |-> 0, scannerIdx |-> 0, scannerDir |-> 1, scannerStep |-> 0,
     lastBeaconTime |-> 0, beaconStep |-> 0,
     s24 |-> FALSE, t24 |-> 0, s13 |-> FALSE, t13 |-> 0,
     sSingle |-> FALSE, tSingle |-> 0]

\* PIN_SCANNER = {10, 11}, PIN_FAST_BLINK = 24, PIN_SEQUENCE = 9, PIN_HEARTBEAT = 13
NoPins == [p10 |-> FALSE, p11 |-> FALSE, p24 |-> FALSE, p9 |-> FALSE, p13 |-> FALSE]
ScannerPin(i) == IF i = 0 THEN "p10" ELSE "p11"

DigitalWrite(L, pin, level) == [L EXCEPT !.pins[pin] = level]

\* runSimpleBlinker(pin, speed, now, state, lastTime), state and lastTime by name
RunSimpleBlinker(L, pin, speed, t, state, lastTime) ==
    IF USub(t, L.led[lastTime]) >= speed
    THEN DigitalWrite([L EXCEPT !.led[lastTime] = t, !.led[state] = ~L.led[state]],
                      pin, ~L.led[state])
    ELSE L

\* a beacon that is dark while disconnected
RunBeaconLogicDarkDefault(L, t, isConnected) ==
    IF ~isConnected
    THEN [DigitalWrite(L, "p9", FALSE) EXCEPT !.led.beaconStep = 0]
    ELSE IF USub(t, L.led.lastBeaconTime) >= BLINK_SPEED
         THEN DigitalWrite([L EXCEPT !.led.lastBeaconTime = t,
                                     !.led.beaconStep = 1 - L.led.beaconStep],
                           "p9", L.led.beaconStep = 0)
         ELSE L

RunBeaconLogic(L, t, isConnected) ==
    IF ~isConnected
    THEN [DigitalWrite(L, "p9", TRUE) EXCEPT !.led.beaconStep = 1]
    ELSE IF USub(t, L.led.lastBeaconTime) >= BLINK_SPEED
         THEN DigitalWrite([L EXCEPT !.led.lastBeaconTime = t,
                                     !.led.beaconStep = 1 - L.led.beaconStep],
                           "p9", L.led.beaconStep = 0)
         ELSE L

\* the sweep wrapping round at the ends instead of reversing
ScannerAdvanceWraps(L) ==
    LET idx == L.led.scannerIdx
        step == L.led.scannerStep
    IN  IF step = 0 \/ step = 2
        THEN [DigitalWrite(L, ScannerPin(idx), TRUE) EXCEPT !.led.scannerStep = step + 1]
        ELSE IF step = 1
        THEN [DigitalWrite(L, ScannerPin(idx), FALSE) EXCEPT !.led.scannerStep = step + 1]
        ELSE LET L1 == DigitalWrite(L, ScannerPin(idx), FALSE)
                 L2 == [L1 EXCEPT !.led.scannerIdx = (idx + L.led.scannerDir) % 2]
             IN  [DigitalWrite(L2, ScannerPin(L2.led.scannerIdx), TRUE)
                     EXCEPT !.led.scannerStep = 0]

\* the both-active branch of runScannerLogic, once the scan period has passed
ScannerAdvance(L) ==
    LET idx == L.led.scannerIdx
        step == L.led.scannerStep
    IN  IF step = 0 \/ step = 2
        THEN [DigitalWrite(L, ScannerPin(idx), TRUE) EXCEPT !.led.scannerStep = step + 1]
        ELSE IF step = 1
        THEN [DigitalWrite(L, ScannerPin(idx), FALSE) EXCEPT !.led.scannerStep = step + 1]
        ELSE IF step = 3
        THEN LET L1 == DigitalWrite(L, ScannerPin(idx), FALSE)
                 next == idx + L.led.scannerDir
                 L2 == IF next >= 2
                       THEN [L1 EXCEPT !.led.scannerDir = -1, !.led.scannerIdx = 0]
                       ELSE IF next < 0
                       THEN [L1 EXCEPT !.led.scannerDir = 1, !.led.scannerIdx = 1]
                       ELSE [L1 EXCEPT !.led.scannerIdx = next]
             IN  [DigitalWrite(L2, ScannerPin(L2.led.scannerIdx), TRUE)
                     EXCEPT !.led.scannerStep = 0]
        ELSE [L EXCEPT !.led.scannerStep = step + 1]

\* runScannerLogic without the write that forces the inactive side off
RunScannerLogicKeepsOther(L, t, leftActive, rightActive) ==
    IF ~leftActive /\ ~rightActive
    THEN DigitalWrite(DigitalWrite(L, "p10", FALSE), "p11", FALSE)
    ELSE IF leftActive /\ rightActive
    THEN IF USub(t, L.led.lastScanTime) < SCAN_SPEED THEN L
         ELSE ScannerAdvance([L EXCEPT !.led.lastScanTime = t])
    ELSE IF leftActive
    THEN RunSimpleBlinker(L, "p10", SCAN_SPEED, t, "sSingle", "tSingle")
    ELSE RunSimpleBlinker(L, "p11", SCAN_SPEED, t, "sSingle", "tSingle")

RunScannerLogic(L, t, leftActive, rightActive) ==
    IF ~leftActive /\ ~rightActive
    THEN DigitalWrite(DigitalWrite(L, "p10", FALSE), "p11", FALSE)
    ELSE IF leftActive /\ rightActive
    THEN IF USub(t, L.led.lastScanTime) < SCAN_SPEED THEN L
         ELSE ScannerAdvance([L EXCEPT !.led.lastScanTime = t])
    ELSE IF leftActive
    THEN RunSimpleBlinker(DigitalWrite(L, "p11", FALSE), "p10", SCAN_SPEED, t,
                          "sSingle", "tSingle")
    ELSE RunSimpleBlinker(DigitalWrite(L, "p10", FALSE), "p11", SCAN_SPEED, t,
                          "sSingle", "tSingle")

\* update with the heartbeat run only while comms are active
LedUpdateHeartbeatOnComms(L, t, leftMotorActive, rightMotorActive, servoActive, commsActive) ==
    LET L1 == IF commsActive
              THEN RunSimpleBlinker(L, "p13", HEARTBEAT_SPEED, t, "s13", "t13")
              ELSE L
        L2 == IF commsActive
              THEN RunSimpleBlinker(L1, "p24", PIN24_SPEED, t, "s24", "t24")
              ELSE DigitalWrite(L1, "p24", FALSE)
        L3 == RunScannerLogic(L2, t, leftMotorActive, rightMotorActive)
    IN  RunBeaconLogic(L3, t, servoActive)

\* LedController::update with millis() = t
LedUpdate(L, t, leftMotorActive, rightMotorActive, servoActive, commsActive) ==
    LET L1 == RunSimpleBlinker(L, "p13", HEARTBEAT_SPEED, t, "s13", "t13")
        L2 == IF commsActive
              THEN RunSimpleBlinker(L1, "p24", PIN24_SPEED, t, "s24", "t24")
              ELSE DigitalWrite(L1, "p24", FALSE)
        L3 == RunScannerLogic(L2, t, leftMotorActive, rightMotorActive)
    IN  RunBeaconLogic(L3, t, servoActive)

(***************************************************************************)
(* Bounds of the model and the inputs fed to it                            *)
(***************************************************************************)
MaxClock == 1030
MaxPending == 11
MaxArrivals == 3

Line_Motor == <<"5", "0", ",", "-", "5", "0">>
Line_Joint == <<"S", "3", "L">>
Line_Q9 == <<"Q", ",", "9">>
Line_S9X == <<"S", "9", "X">>

\* what one burst on a channel delivers: a line and its terminator
Chunks ==
    {Line_Motor \o <<LF>>, Line_Joint \o <<LF>>, Line_Q9 \o <<LF>>,
     Line_S9X \o <<CR>>}

\* clock advances between two readings of millis()
TickSteps == {500, 501}

(***************************************************************************)
(* The command grammar as the protocol states it: S<digit 1..6><dir>, or   *)
(* <int>,<int>.  Used only to say which dispatched lines were well formed. *)
(***************************************************************************)
IsInt(s) ==
    LET d == IF s # <<>> /\ (s[1] = "-" \/ s[1] = "+") THEN Tail(s) ELSE s IN
    d # <<>> /\ \A i \in 1..Len(d) : IsDigit(d[i])

JointForm(cmd) ==
    /\ Len(cmd) >= 2
    /\ cmd[1] = "S"
    /\ IsDigit(cmd[2])
    /\ DigitVal(cmd[2]) \in 1..numServos

MotorForm(cmd) ==
    \E k \in 1..Len(cmd) :
        /\ cmd[k] = ","
        /\ IsInt(SubSeq(cmd, 1, k - 1))
        /\ IsInt(SubSeq(cmd, k + 1, Len(cmd)))

WellFormed(cmd) == JointForm(cmd) \/ MotorForm(cmd)

\* the processCommand calls a step added to the iteration's record
NewCalls(before, after) == SubSeq(after, Len(before) + 1, Len(after))
SomeWellFormed(calls) == \E i \in 1..Len(calls) : WellFormed(calls[i].cmd)

(***************************************************************************)
(* State after static initialisation (GlobalVariables.cpp)                 *)
(***************************************************************************)
Init ==
    /\ clock = 0
    /\ pc = "setup"
    /\ now = 0
    /\ lastCommandTime = 0
    /\ lastMotorTime = 0
    /\ lastServoTime = 0
    /\ failsafeTriggered = FALSE
    /\ isLeftMotorActive = FALSE
    /\ isRightMotorActive = FALSE
    /\ serialCommunicationFlag = FALSE
    /\ servoCommands = [i \in Joints |-> NUL]
    /\ leftMotor = NewMotor(DefaultPwmStep)
    /\ rightMotor = NewMotor(DefaultPwmStep)
    /\ controller = NewServoController(DefaultAccel, DefaultDecel)
    /\ usbBuffer = <<>>
    /\ usbIndex = 0
    /\ radioBuffer = <<>>
    /\ radioIndex = 0
    /\ usbStream = <<>>
    /\ radioStream = <<>>
    /\ events = <<>>
    /\ ledSys = NewLedController
    /\ pins = NoPins
    /\ wdtFeeds = 0
    /\ dispatched = <<>>
    /\ held = FALSE
    /\ inputs = 0
    /\ op = "none"

(***************************************************************************)
(* Environment: the millisecond clock and the two serial receivers         *)
(***************************************************************************)
\* the loop steps whose code reads millis(): a tick anywhere else is seen by
\* nobody before the next of these
TickPoints == {"loop", "usb", "radio", "led"}

Tick(d) ==
    /\ pc \in TickPoints
    /\ clock + d <= MaxClock
    /\ clock' = (clock + d) % ClockMod
    /\ UNCHANGED <<pc, now, timers, failsafeTriggered, serialCommunicationFlag,
                   servoCommands, motors, controller, framers, streams, events,
                   leds, wdtFeeds, dispatched, held, inputs, op>>

\* bytes received wait in the driver's queue until checkInput reads them, so
\* every arrival is placed before the iteration that drains it
ArriveUsb(chunk) ==
    /\ pc = "loop"
    /\ Len(usbStream) + Len(radioStream) + Len(chunk) <= MaxPending
    /\ inputs < MaxArrivals
    /\ inputs' = inputs + 1
    /\ usbStream' = usbStream \o chunk
    /\ UNCHANGED <<clock, pc, now, timers, failsafeTriggered,
                   serialCommunicationFlag, servoCommands, motors, controller,
                   framers, radioStream, events, leds, wdtFeeds, dispatched, held,
                   op>>

ArriveRadio(chunk) ==
    /\ pc = "loop"
    /\ Len(usbStream) + Len(radioStream) + Len(chunk) <= MaxPending
    /\ inputs < MaxArrivals
    /\ inputs' = inputs + 1
    /\ radioStream' = radioStream \o chunk
    /\ UNCHANGED <<clock, pc, now, timers, failsafeTriggered,
                   serialCommunicationFlag, servoCommands, motors, controller,
                   framers, usbStream, events, leds, wdtFeeds, dispatched, held,
                   op>>

(***************************************************************************)
(* setup()                                                                 *)
(***************************************************************************)
\* setup() without its last statement: the deadline still counts from 0
SetupKeepsDeadline(watchdogReset) ==
    /\ pc = "setup"
    /\ serialCommunicationFlag' = TRUE
    /\ events' = events \o
           <<IF watchdogReset THEN ERR_WATCHDOG_RESET ELSE SYS_BOOT_START,
             ACT_INIT_START, ACT_MOTORS_READY, ACT_SERVOS_READY, SYS_BOOT_COMPLETE>>
    /\ leftMotor' = MotorEmergencyStop(leftMotor)
    /\ rightMotor' = MotorEmergencyStop(rightMotor)
    /\ pins' = [pins EXCEPT !.p10 = FALSE, !.p11 = FALSE]
    /\ clock' = (clock + BeginDelay) % ClockMod
    /\ pc' = "loop"
    /\ UNCHANGED <<now, timers, failsafeTriggered,
                   isLeftMotorActive, isRightMotorActive, servoCommands, controller,
                   framers, streams, ledSys, wdtFeeds, dispatched, held, inputs, op>>

Setup(watchdogReset) ==
    /\ pc = "setup"
    /\ serialCommunicationFlag' = TRUE
    /\ events' = events \o
           <<IF watchdogReset THEN ERR_WATCHDOG_RESET ELSE SYS_BOOT_START,
             ACT_INIT_START, ACT_MOTORS_READY, ACT_SERVOS_READY, SYS_BOOT_COMPLETE>>
    /\ leftMotor' = MotorEmergencyStop(leftMotor)
    /\ rightMotor' = MotorEmergencyStop(rightMotor)
    /\ pins' = [pins EXCEPT !.p10 = FALSE, !.p11 = FALSE]
    /\ clock' = (clock + BeginDelay) % ClockMod
    /\ lastCommandTime' = clock'
    /\ pc' = "loop"
    /\ UNCHANGED <<now, lastMotorTime, lastServoTime, failsafeTriggered,
                   isLeftMotorActive, isRightMotorActive, servoCommands, controller,
                   framers, streams, ledSys, wdtFeeds, dispatched, held, inputs, op>>

(***************************************************************************)
(* loop(), one action per statement group                                  *)
(***************************************************************************)
\* an iteration that feeds the watchdog a second time
LoopBeginFeedsTwice ==
    /\ pc = "loop"
    /\ wdtFeeds' = wdtFeeds + 2
    /\ now' = clock
    /\ dispatched' = <<>>
    /\ pc' = "usb"
    /\ UNCHANGED <<clock, timers, failsafeTriggered, serialCommunicationFlag,
                   servoCommands, motors, controller, framers, streams, events,
                   leds, held, inputs, op>>

\* wdt.feed(); unsigned long now = millis();
LoopBegin ==
    /\ pc = "loop"
    /\ wdtFeeds' = wdtFeeds + 1
    /\ now' = clock
    /\ dispatched' = <<>>
    /\ pc' = "usb"
    /\ UNCHANGED <<clock, timers, failsafeTriggered, serialCommunicationFlag,
                   servoCommands, motors, controller, framers, streams, events,
                   leds, held, inputs, op>>

\* a USB drain that waits for the terminator of a line it has begun
CheckUsbWaitsForLine ==
    /\ pc = "usb"
    /\ \/ usbStream = <<>> /\ usbIndex = 0
       \/ \E k \in 1..Len(usbStream) : usbStream[k] \in {LF, CR}
    /\ LET R == CheckInput(CmdState, usbBuffer, usbIndex, usbStream, clock) IN
        /\ SetCmdState(R.S)
        /\ usbBuffer' = R.buffer
        /\ usbIndex' = R.index
        /\ held' = (held /\ ~SomeWellFormed(NewCalls(dispatched, R.S.dispatched)))
    /\ usbStream' = <<>>
    /\ pc' = "radio"
    /\ UNCHANGED <<clock, now, lastMotorTime, lastServoTime,
                   serialCommunicationFlag, controller, radioBuffer, radioIndex,
                   radioStream, leds, wdtFeeds, inputs, op>>

\* checkInput(Serial, usbBuffer, usbIndex)
CheckUsb ==
    /\ pc = "usb"
    /\ LET R == CheckInput(CmdState, usbBuffer, usbIndex, usbStream, clock) IN
        /\ SetCmdState(R.S)
        /\ usbBuffer' = R.buffer
        /\ usbIndex' = R.index
        /\ held' = (held /\ ~SomeWellFormed(NewCalls(dispatched, R.S.dispatched)))
    /\ usbStream' = <<>>
    /\ pc' = "radio"
    /\ UNCHANGED <<clock, now, lastMotorTime, lastServoTime,
                   serialCommunicationFlag, controller, radioBuffer, radioIndex,
                   radioStream, leds, wdtFeeds, inputs, op>>

\* checkInput(APC220, radioBuffer, radioIndex)
CheckRadio ==
    /\ pc = "radio"
    /\ LET R == CheckInput(CmdState, radioBuffer, radioIndex, radioStream, clock) IN
        /\ SetCmdState(R.S)
        /\ radioBuffer' = R.buffer
        /\ radioIndex' = R.index
        /\ held' = (held /\ ~SomeWellFormed(NewCalls(dispatched, R.S.dispatched)))
    /\ radioStream' = <<>>
    /\ pc' = "failsafe"
    /\ UNCHANGED <<clock, now, lastMotorTime, lastServoTime,
                   serialCommunicationFlag, controller, usbBuffer, usbIndex,
                   usbStream, leds, wdtFeeds, inputs, op>>

\* the check without its "not already tripped" test
FailsafeDueEveryCycle(triggered, t, last) ==
    USub(t, last) > FAILSAFE_TIMEOUT

\* a check that can trip only once per boot
FailsafeDueOncePerBoot(triggered, t, last) ==
    /\ ~triggered
    /\ USub(t, last) > FAILSAFE_TIMEOUT
    /\ \A i \in 1..Len(events) : events[i] # SAFE_FAILSAFE_TRIGGER

\* the condition of the failsafe check
FailsafeDue(triggered, t, last) ==
    ~triggered /\ USub(t, last) > FAILSAFE_TIMEOUT

\* for(int i=0; i<6; i++) servoCommands[i] = 0;
FailsafeCommands == [i \in Joints |-> NUL]

FailsafeCheck ==
    /\ pc = "failsafe"
    /\ IF FailsafeDue(failsafeTriggered, now, lastCommandTime)
       THEN /\ failsafeTriggered' = TRUE
            /\ leftMotor' = MotorEmergencyStop(leftMotor)
            /\ rightMotor' = MotorEmergencyStop(rightMotor)
            /\ controller' = ServoEmergencyStop(controller)
            /\ isLeftMotorActive' = FALSE
            /\ isRightMotorActive' = FALSE
            /\ servoCommands' = FailsafeCommands
            /\ events' = Append(events, SAFE_FAILSAFE_TRIGGER)
            /\ held' = TRUE
       ELSE UNCHANGED <<failsafeTriggered, motors, controller, servoCommands,
                        events, held>>
    /\ pc' = "motor"
    /\ UNCHANGED <<clock, now, timers, serialCommunicationFlag, framers, streams,
                   leds, wdtFeeds, dispatched, inputs, op>>

\* the motor gate left open in every iteration
MotorDueEveryIteration(t, last) == TRUE

MotorDue(t, last) == USub(t, last) >= MOTOR_INTERVAL

MotorStep ==
    /\ pc = "motor"
    /\ IF MotorDue(now, lastMotorTime)
       THEN /\ lastMotorTime' = now
            /\ leftMotor' = MotorUpdate(leftMotor)
            /\ rightMotor' = MotorUpdate(rightMotor)
       ELSE UNCHANGED <<lastMotorTime, leftMotor, rightMotor>>
    /\ pc' = "servo"
    /\ UNCHANGED <<clock, now, lastCommandTime, lastServoTime, failsafeTriggered,
                   isLeftMotorActive, isRightMotorActive, serialCommunicationFlag,
                   servoCommands, controller, framers, streams, events, leds,
                   wdtFeeds, dispatched, held, inputs, op>>

ServoDue(t, last) == USub(t, last) >= SERVO_INTERVAL

ServoStep ==
    /\ pc = "servo"
    /\ IF ServoDue(now, lastServoTime)
       THEN /\ lastServoTime' = now
            /\ controller' = ServoUpdate(controller, servoCommands)
       ELSE UNCHANGED <<lastServoTime, controller>>
    /\ pc' = "led"
    /\ UNCHANGED <<clock, now, lastCommandTime, lastMotorTime, failsafeTriggered,
                   serialCommunicationFlag, servoCommands, motors, framers, streams,
                   events, leds, wdtFeeds, dispatched, held, inputs, op>>

\* ledSys.update(...), the last statement of loop()
LedStep ==
    /\ pc = "led"
    /\ LET L == LedUpdate([led |-> ledSys, pins |-> pins], clock, isLeftMotorActive,
                          isRightMotorActive, ServoIsActive(controller),
                          serialCommunicationFlag) IN
        /\ ledSys' = L.led
        /\ pins' = L.pins
    /\ wdtFeeds' = 0
    /\ pc' = "loop"
    /\ UNCHANGED <<clock, now, timers, failsafeTriggered, serialCommunicationFlag,
                   servoCommands, motors, controller, framers, streams, events,
                   dispatched, held, inputs, op>>

LoopStep ==
    \/ LoopBegin
    \/ CheckUsb
    \/ CheckRadio
    \/ FailsafeCheck
    \/ MotorStep
    \/ ServoStep
    \/ LedStep

Next ==
    \/ \E w \in BOOLEAN : Setup(w)
    \/ LoopStep
    \/ \E d \in TickSteps : Tick(d)
    \/ \E chunk \in Chunks : ArriveUsb(chunk)
    \/ \E chunk \in Chunks : ArriveRadio(chunk)

Spec == Init /\ [][Next]_vars

(***************************************************************************)
(* The same program with every burst and no clock tick: all the lines the  *)
(* interpreter has to tell apart, dispatched within one millisecond.       *)
(***************************************************************************)
Line_Lone == <<"7">>
Line_Text == <<"X", ",", "X">>
Line_S0L == <<"S", "0", "L">>
Line_S == <<"S">>

Line_Big == <<"3", "0", "0", ",", "-", "3", "0", "0">>
Line_S1R == <<"S", "1", "R">>
Line_S6X == <<"S", "6", "X">>
Line_S3 == <<"S", "3">>

ParseChunks ==
    Chunks \cup
    {Line_Lone \o <<LF>>, Line_Text \o <<LF>>, Line_S0L \o <<LF>>, Line_S \o <<CR>>,
     Line_Big \o <<LF>>, Line_S1R \o <<LF>>, Line_S6X \o <<CR>>, Line_S3 \o <<LF>>}

NextLines ==
    \/ \E w \in BOOLEAN : Setup(w)
    \/ LoopStep
    \/ \E chunk \in ParseChunks : ArriveUsb(chunk)
    \/ \E chunk \in ParseChunks : ArriveRadio(chunk)

SpecLines == Init /\ [][NextLines]_vars

(***************************************************************************)
(* The same program driven at the motor cadence: motor lines on USB, and   *)
(* a clock that is read once per iteration and advances by one motor       *)
(* interval or by just more than the failsafe timeout.                     *)
(***************************************************************************)
MaxDriveClock == 611
MaxDriveArrivals == 2
\* how long after a command the clock still advances at the motor cadence
RampWindow == 100

Line_Full == <<"1", "0", "0", ",", "1", "0", "0">>

DriveChunks == {Line_Full \o <<LF>>, Line_Motor \o <<LF>>}

DriveTicks == {MOTOR_INTERVAL, FAILSAFE_TIMEOUT + 1}

\* the clock advances once the running iteration has sampled it
TickDrive(d) ==
    /\ pc = "loop"
    /\ now = clock
    /\ clock + d <= MaxDriveClock
    /\ d = MOTOR_INTERVAL => USub(clock, lastCommandTime) < RampWindow
    /\ Tick(d)

ArriveDrive(chunk) ==
    /\ inputs < MaxDriveArrivals
    /\ ArriveUsb(chunk)

NextDrive ==
    \/ \E w \in BOOLEAN : Setup(w)
    \/ LoopStep
    \/ \E d \in DriveTicks : TickDrive(d)
    \/ \E chunk \in DriveChunks : ArriveDrive(chunk)

SpecDrive == Init /\ [][NextDrive]_vars

(***************************************************************************)
(* The same program fed byte bursts that do not respect line boundaries:   *)
(* lines split across bursts, several lines in one burst, bare             *)
(* terminators, and a line longer than the buffer.  No clock tick.         *)
(***************************************************************************)
MaxFrameArrivals == 3

Burst_JointCrLf == Line_Joint \o <<CR, LF>>
Burst_Head == <<"S", "3">>
Burst_Tail == <<"L", LF>>
Burst_Terminators == <<LF, CR>>
Burst_Long == [i \in 1..20 |-> "X"]
Burst_TwoLines == Line_Motor \o <<LF>> \o Line_S1R \o <<LF>>

Bursts ==
    {Burst_JointCrLf, Burst_Head, Burst_Tail, Burst_Terminators, Burst_Long,
     Burst_TwoLines}

ArriveBurst(chunk) ==
    /\ pc = "loop"
    /\ inputs < MaxFrameArrivals
    /\ inputs' = inputs + 1
    /\ \/ usbStream' = usbStream \o chunk /\ UNCHANGED radioStream
       \/ radioStream' = radioStream \o chunk /\ UNCHANGED usbStream
    /\ UNCHANGED <<clock, pc, now, timers, failsafeTriggered,
                   serialCommunicationFlag, servoCommands, motors, controller,
                   framers, events, leds, wdtFeeds, dispatched, held, op>>

NextFrames ==
    \/ \E w \in BOOLEAN : Setup(w)
    \/ LoopStep
    \/ \E chunk \in Bursts : ArriveBurst(chunk)

SpecFrames == Init /\ [][NextFrames]_vars

\* loop() is called again and again, and each of its statements returns:
\* whichever step of the iteration is next is eventually taken
SpecFramesFair == Init /\ [][NextFrames]_vars /\ WF_vars(LoopStep)

(***************************************************************************)
(* The same program fed unterminated bytes while the clock runs past the   *)
(* failsafe deadline: partial lines on either channel, the terminator that *)
(* completes one, and a whole motor line.                                  *)
(***************************************************************************)
MaxPartArrivals == 3

PartBursts == {Burst_Head, Burst_Tail, Burst_Long, Line_Motor \o <<LF>>}

ArrivePart(chunk) ==
    /\ inputs < MaxPartArrivals
    /\ ArriveBurst(chunk)

NextParts ==
    \/ \E w \in BOOLEAN : Setup(w)
    \/ LoopStep
    \/ \E d \in TickSteps : Tick(d)
    \/ \E chunk \in PartBursts : ArrivePart(chunk)

SpecParts == Init /\ [][NextParts]_vars

(***************************************************************************)
(* The same program over several timeouts: the clock advances between      *)
(* iterations by the timeout or by one more, and whole lines arrive on     *)
(* USB.                                                                    *)
(***************************************************************************)
MaxRearmClock == 2020
MaxRearmArrivals == 3

RearmTicks == {FAILSAFE_TIMEOUT, FAILSAFE_TIMEOUT + 1}

RearmChunks == {Line_Motor \o <<LF>>, Line_Joint \o <<LF>>}

TickRearm(d) ==
    /\ pc = "loop"
    /\ now = clock
    /\ clock + d <= MaxRearmClock
    /\ clock' = (clock + d) % ClockMod
    /\ UNCHANGED <<pc, now, timers, failsafeTriggered, serialCommunicationFlag,
                   servoCommands, motors, controller, framers, streams, events,
                   leds, wdtFeeds, dispatched, held, inputs, op>>

ArriveRearm(chunk) ==
    /\ pc = "loop"
    /\ usbStream = <<>>
    /\ inputs < MaxRearmArrivals
    /\ inputs' = inputs + 1
    /\ usbStream' = usbStream \o chunk
    /\ UNCHANGED <<clock, pc, now, timers, failsafeTriggered,
                   serialCommunicationFlag, servoCommands, motors, controller,
                   framers, radioStream, events, leds, wdtFeeds, dispatched, held,
                   op>>

NextRearm ==
    \/ \E w \in BOOLEAN : Setup(w)
    \/ LoopStep
    \/ \E d \in RearmTicks : TickRearm(d)
    \/ \E chunk \in RearmChunks : ArriveRearm(chunk)

SpecRearm == Init /\ [][NextRearm]_vars

(***************************************************************************)
(* The LedController alone: update is called with any four flags, in the   *)
(* same millisecond as the previous call or half a scan period later.      *)
(***************************************************************************)
MaxLedClock == 1110
MaxLedChanges == 2

\* time between two calls of update: none, or half a scan period
LedTicks == {0, PIN24_SPEED}

\* the four flags update was last called with
LedFlags ==
    <<isLeftMotorActive, isRightMotorActive, ServoIsActive(controller),
      serialCommunicationFlag>>

\* the arguments of the next update, and the clock it will read; the flags
\* change between two calls a bounded number of times
LedEnv(left, right, servo, comms, d) ==
    /\ pc = "loop"
    /\ clock + d <= MaxLedClock
    /\ clock' = (clock + d) % ClockMod
    /\ IF <<left, right, servo, comms>> = LedFlags
       THEN UNCHANGED inputs
       ELSE inputs < MaxLedChanges /\ inputs' = inputs + 1
    /\ isLeftMotorActive' = left
    /\ isRightMotorActive' = right
    /\ controller' = [controller EXCEPT
           !.speeds = [i \in Joints |-> IF servo /\ i = 1 THEN DefaultAccel ELSE 0]]
    /\ serialCommunicationFlag' = comms
    /\ pc' = "led"
    /\ UNCHANGED <<now, timers, failsafeTriggered, servoCommands, leftMotor,
                   rightMotor, framers, streams, events, leds, wdtFeeds,
                   dispatched, held, op>>

NextLed ==
    \/ \E w \in BOOLEAN : Setup(w)
    \/ \E left, right, servo, comms \in BOOLEAN :
          \E d \in LedTicks : LedEnv(left, right, servo, comms, d)
    \/ LedStep

SpecLed == Init /\ [][NextLed]_vars

(***************************************************************************)
(* The two ramps alone: one Motor, or the ServoController, driven through  *)
(* its methods (phase "drive"), then updated with its target held          *)
(* (phase "hold").  The step sizes are drawn at construction.              *)
(***************************************************************************)
MaxCalls == 6

MotorSteps == {1, DefaultPwmStep, 7, 600}
TargetInputs == {-300, -255, -8, 0, 3, 100, 300}
\* the spacing of the floats just below maxSpeed (2^-23): a step smaller than
\* half of it is lost when it is added to a speed of that size
SpeedSpacing == Spacing(2 * FloatOne - 1, Significand)
FineStep == SpeedSpacing \div 16
\* accel and decel (public fields): the configured pair, a decel of 0.07 that
\* does not divide the range, steps larger than the range, a decel of 2^-10 and
\* a decel of 2^-27
ServoSteps ==
    {<<DefaultAccel, DefaultDecel>>, <<DefaultAccel, 18790482>>,
     <<3 * FloatOne, FloatOne>>, <<2 * FloatOne, FloatOne \div 2^10>>,
     <<2 * FloatOne, FineStep>>}
\* the step a ramp from rest toward dir begins with
FirstStep(c, dir) == IF dir = "L" THEN c.decel ELSE c.accel
Directions == {"L", "R", NUL}
UnitJoint == CHOOSE i \in Joints : \A j \in Joints : i <= j

InitRamp ==
    /\ clock = 0
    /\ now = 0
    /\ lastCommandTime = 0
    /\ lastMotorTime = 0
    /\ lastServoTime = 0
    /\ failsafeTriggered = FALSE
    /\ isLeftMotorActive = FALSE
    /\ isRightMotorActive = FALSE
    /\ serialCommunicationFlag = FALSE
    /\ servoCommands = [i \in Joints |-> NUL]
    /\ rightMotor = NewMotor(DefaultPwmStep)
    /\ \/ /\ pc = "motor.drive"
          /\ \E s \in MotorSteps : leftMotor = NewMotor(s)
          /\ controller = NewServoController(DefaultAccel, DefaultDecel)
       \/ /\ pc = "servo.drive"
          /\ leftMotor = NewMotor(DefaultPwmStep)
          /\ \E s \in ServoSteps : controller = NewServoController(s[1], s[2])
    /\ usbBuffer = <<>>
    /\ usbIndex = 0
    /\ radioBuffer = <<>>
    /\ radioIndex = 0
    /\ usbStream = <<>>
    /\ radioStream = <<>>
    /\ events = <<>>
    /\ ledSys = NewLedController
    /\ pins = NoPins
    /\ wdtFeeds = 0
    /\ dispatched = <<>>
    /\ held = FALSE
    /\ inputs = 0
    /\ op = "none"

UnitMotorFrame ==
    UNCHANGED <<clock, now, timers, failsafeTriggered, serialCommunicationFlag,
                servoCommands, rightMotor, isLeftMotorActive, isRightMotorActive,
                controller, framers, streams, events, leds, wdtFeeds, dispatched,
                held, inputs>>

UnitServoFrame ==
    UNCHANGED <<clock, now, timers, failsafeTriggered, serialCommunicationFlag,
                motors, framers, streams, events, leds, wdtFeeds, dispatched, held>>

UnitSetTarget(v) ==
    /\ pc = "motor.drive"
    /\ leftMotor' = MotorSetTarget(leftMotor, v)
    /\ op' = "Motor::setTarget"
    /\ UNCHANGED pc
    /\ UnitMotorFrame

UnitMotorUpdate ==
    /\ pc \in {"motor.drive", "motor.hold"}
    /\ leftMotor' = MotorUpdate(leftMotor)
    /\ op' = "Motor::update"
    /\ UNCHANGED pc
    /\ UnitMotorFrame

UnitMotorEmergencyStop ==
    /\ pc = "motor.drive"
    /\ leftMotor' = MotorEmergencyStop(leftMotor)
    /\ op' = "Motor::emergencyStop"
    /\ UNCHANGED pc
    /\ UnitMotorFrame

\* the caller's commands[] argument, as processCommand writes it
UnitSetDirection(dir) ==
    /\ pc = "servo.drive"
    /\ inputs < MaxCalls
    \* a ramp from rest by steps of 2^-27 takes 2^24 updates to leave the range
    \* where float addition is exact: the runs leave that direction out
    /\ FirstStep(controller, dir) >= SpeedSpacing
    /\ inputs' = inputs + 1
    /\ servoCommands' = [servoCommands EXCEPT ![UnitJoint] = dir]
    /\ op' = "setDirection"
    /\ UNCHANGED <<pc, controller>>
    /\ UnitServoFrame

UnitServoUpdate ==
    /\ \/ pc = "servo.hold" /\ UNCHANGED inputs
       \/ pc = "servo.drive" /\ inputs < MaxCalls /\ inputs' = inputs + 1
    /\ controller' = ServoUpdate(controller, servoCommands)
    /\ op' = "ServoController::update"
    /\ UNCHANGED <<pc, servoCommands>>
    /\ UnitServoFrame

UnitServoEmergencyStop ==
    /\ pc = "servo.drive"
    /\ inputs < MaxCalls
    /\ inputs' = inputs + 1
    /\ controller' = ServoEmergencyStop(controller)
    /\ op' = "ServoController::emergencyStop"
    /\ UNCHANGED <<pc, servoCommands>>
    /\ UnitServoFrame

\* from here on the target is held
UnitHold ==
    /\ pc \in {"motor.drive", "servo.drive"}
    /\ pc' = IF pc = "motor.drive" THEN "motor.hold" ELSE "servo.hold"
    /\ op' = "hold"
    /\ UNCHANGED <<clock, now, timers, failsafeTriggered, serialCommunicationFlag,
                   servoCommands, motors, controller, framers, streams, events,
                   leds, wdtFeeds, dispatched, held, inputs>>

HoldUpdate ==
    \/ pc = "motor.hold" /\ UnitMotorUpdate
    \/ pc = "servo.hold" /\ UnitServoUpdate

NextRamp ==
    \/ \E v \in TargetInputs : UnitSetTarget(v)
    \/ UnitMotorUpdate
    \/ UnitMotorEmergencyStop
    \/ \E dir \in Directions : UnitSetDirection(dir)
    \/ UnitServoUpdate
    \/ UnitServoEmergencyStop
    \/ UnitHold

\* a held ramp keeps being updated: loop() runs forever and its cadence gates
\* open again and again
SpecRamp == InitRamp /\ [][NextRamp]_vars /\ WF_vars(HoldUpdate)

(***************************************************************************)
(* Properties                                                              *)
(***************************************************************************)
AllJointsHold == \A i \in Joints : servoCommands[i] = NUL
SpeedsZero == \A i \in Joints : controller.speeds[i] = 0
ActuatorsZero ==
    leftMotor.currentPWM = 0 /\ rightMotor.currentPWM = 0 /\ SpeedsZero
MotorStopped(m) ==
    m.targetPWM = 0 /\ m.currentPWM = 0 /\ m.rpwm = 0 /\ m.lpwm = 0
Count(seq, x) == Cardinality({i \in 1..Len(seq) : seq[i] = x})
DrainStep == pc \in {"usb", "radio"}

\* C1: once the failsafe has tripped, both motor currents and all six servo
\* speeds are zero, and stay zero in every later state until a well-formed
\* command is parsed.
C1_ZeroUntilValidCommand == held => ActuatorsZero

\* C1, the trip itself: an iteration whose time sample is past the deadline
\* reaches its motor update with the failsafe tripped and every actuator at zero.
C1_TripZeroes ==
    (pc \in {"motor", "servo", "led"} /\ USub(now, lastCommandTime) > FAILSAFE_TIMEOUT)
        => (failsafeTriggered /\ ActuatorsZero)

\* C2: at every loop-iteration boundary, a tripped failsafe means both motors
\* have target 0 and current 0, every servo speed is 0, every joint direction is
\* Hold and both motor-active flags are false.
C2_TrippedHoldsZero ==
    (pc = "loop" /\ failsafeTriggered) =>
        /\ leftMotor.targetPWM = 0 /\ leftMotor.currentPWM = 0
        /\ rightMotor.targetPWM = 0 /\ rightMotor.currentPWM = 0
        /\ SpeedsZero
        /\ AllJointsHold
        /\ ~isLeftMotorActive /\ ~isRightMotorActive

\* a boundary with the failsafe tripped after joint 3 had been driven off centre
\* and a later iteration had passed
C2_Witness ==
    /\ pc = "loop"
    /\ failsafeTriggered
    /\ controller.angles[3] # Angle(CenterAngle)
    /\ USub(clock, lastCommandTime) > 2 * FAILSAFE_TIMEOUT

\* C3: a drain that dispatches only malformed lines leaves lastCommandTime as
\* it was.
C3_MalformedKeepsDeadline ==
    [][(DrainStep
        /\ NewCalls(dispatched, dispatched') # <<>>
        /\ ~SomeWellFormed(NewCalls(dispatched, dispatched')))
       => lastCommandTime' = lastCommandTime]_vars

\* C4: failsafeTriggered goes from true to false only in a step that dispatches
\* a well-formed command.
C4_OnlyValidClears ==
    [][(failsafeTriggered /\ ~failsafeTriggered')
       => SomeWellFormed(NewCalls(dispatched, dispatched'))]_vars

\* C5: a drain whose lines neither begin with the joint marker nor are two
\* integers around one comma leaves motor targets, motor currents, the
\* motor-active flags and the joint directions unchanged.
NeitherForm(cmd) == CharAt(cmd, 0) # "S" /\ ~MotorForm(cmd)
C5_NeitherFormIgnored ==
    [][(DrainStep
        /\ NewCalls(dispatched, dispatched') # <<>>
        /\ \A i \in 1..Len(NewCalls(dispatched, dispatched')) :
               NeitherForm(NewCalls(dispatched, dispatched')[i].cmd))
       => /\ leftMotor' = leftMotor
          /\ rightMotor' = rightMotor
          /\ isLeftMotorActive' = isLeftMotorActive
          /\ isRightMotorActive' = isRightMotorActive
          /\ servoCommands' = servoCommands]_vars

\* C6: a drain whose lines all begin with the joint marker and carry an index
\* character outside '1'..'6' leaves the six joint directions and both motor
\* targets unchanged.
BadIndexJoint(cmd) == CharAt(cmd, 0) = "S" /\ ~JointForm(cmd)
AllBadIndex(calls) ==
    calls # <<>> /\ \A i \in 1..Len(calls) : BadIndexJoint(calls[i].cmd)
C6_BadIndexIgnored ==
    [][(DrainStep /\ AllBadIndex(NewCalls(dispatched, dispatched')))
       => /\ servoCommands' = servoCommands
          /\ leftMotor'.targetPWM = leftMotor.targetPWM
          /\ rightMotor'.targetPWM = rightMotor.targetPWM]_vars

\* "S0L", "S9X" and a bare "S" have all been dispatched in one iteration while
\* joint 3 is retracting and the motors have targets
C6_Witness ==
    /\ pc = "failsafe"
    /\ AllBadIndex(dispatched)
    /\ \E i \in 1..Len(dispatched) : dispatched[i].cmd = Line_S0L
    /\ servoCommands[3] = "L"
    /\ leftMotor.targetPWM = 50

\* C7: a drain that dispatches a well-formed command while the failsafe is
\* tripped ends with the failsafe clear and has emitted exactly one
\* SAFE_FAILSAFE_CLEAR; a drain that starts with the failsafe clear emits
\* nothing, so one clearing yields one event however many lines and channels
\* the iteration drains.
C7_OneClearPerClearing ==
    [][DrainStep =>
        /\ (failsafeTriggered /\ SomeWellFormed(NewCalls(dispatched, dispatched')))
              => (~failsafeTriggered'
                  /\ events' = Append(events, SAFE_FAILSAFE_CLEAR))
        /\ ~failsafeTriggered => (~failsafeTriggered' /\ events' = events)]_vars

\* both channels have been drained in one iteration that began tripped: two
\* well-formed commands were dispatched and the log holds one clear per trigger
C7_Witness ==
    /\ pc = "failsafe"
    /\ Len(dispatched) = 2
    /\ dispatched[1].tripped
    /\ \A i \in 1..2 : WellFormed(dispatched[i].cmd)
    /\ usbIndex = 0 /\ radioIndex = 0
    /\ lastCommandTime = clock
    /\ ~failsafeTriggered
    /\ Count(events, SAFE_FAILSAFE_CLEAR) = 1
    /\ Count(events, SAFE_FAILSAFE_TRIGGER) = 1
    /\ events[Len(events)] = SAFE_FAILSAFE_CLEAR

\* C8: the failsafe check of an iteration whose sample is past the deadline,
\* with the failsafe armed, stops both motors and all servo speeds, sets every
\* joint direction to Hold and emits SAFE_FAILSAFE_TRIGGER once; any other
\* failsafe check emits nothing and leaves the tripped flag as it was.
C8_TripOnce ==
    [][(pc = "failsafe" /\ pc' = "motor") =>
        IF ~failsafeTriggered /\ USub(now, lastCommandTime) > FAILSAFE_TIMEOUT
        THEN /\ failsafeTriggered'
             /\ MotorStopped(leftMotor')
             /\ MotorStopped(rightMotor')
             /\ \A i \in Joints : controller'.speeds[i] = 0
             /\ \A i \in Joints : servoCommands'[i] = NUL
             /\ events' = Append(events, SAFE_FAILSAFE_TRIGGER)
        ELSE /\ events' = events
             /\ failsafeTriggered' = failsafeTriggered]_vars

\* a failsafe check has run a full timeout after the trip, with no command in
\* between, and the log still holds the one trigger
C8_Witness ==
    /\ pc = "motor"
    /\ failsafeTriggered
    /\ USub(now, lastCommandTime) > 2 * FAILSAFE_TIMEOUT
    /\ controller.angles[3] # Angle(CenterAngle)
    /\ Count(events, SAFE_FAILSAFE_TRIGGER) = 1
    /\ events[Len(events)] = SAFE_FAILSAFE_TRIGGER

\* C9: one Motor::update changes current by at most pwmStep and leaves it
\* between its previous value and the target, inclusive.
C9_RampStepBounded ==
    [][op' = "Motor::update" =>
        /\ Abs(leftMotor'.currentPWM - leftMotor.currentPWM) <= leftMotor.pwmStep
        /\ Min(leftMotor.currentPWM, leftMotor.targetPWM) <= leftMotor'.currentPWM
        /\ leftMotor'.currentPWM <= Max(leftMotor.currentPWM, leftMotor.targetPWM)
        /\ leftMotor'.targetPWM = leftMotor.targetPWM]_vars

\* an update has just landed on a target the step does not divide
C9_Witness ==
    /\ op = "Motor::update"
    /\ leftMotor.pwmStep = 7
    /\ leftMotor.targetPWM = -255
    /\ leftMotor.currentPWM = -255
    /\ leftMotor.lpwm = 255

\* C10: with the target held, the motor current and every servo speed reach
\* their target exactly, stay there, and on the way each update leaves the
\* value between the previous value and the target (no overshoot, no
\* oscillation), whatever the positive step sizes.
Holding == pc \in {"motor.hold", "servo.hold"}
ServoTargets == [i \in Joints |-> ServoTargetSpeed(controller, i, servoCommands[i])]
Settled ==
    /\ pc = "motor.hold" => leftMotor.currentPWM = leftMotor.targetPWM
    /\ pc = "servo.hold" => controller.speeds = ServoTargets
Toward(old, new, target) == Min(old, target) <= new /\ new <= Max(old, target)
StaysSettled == [][(Holding /\ Settled) => Settled']_vars
NoOvershoot ==
    [][Holding =>
        /\ Toward(leftMotor.currentPWM, leftMotor'.currentPWM, leftMotor.targetPWM)
        /\ \A i \in Joints :
               Toward(controller.speeds[i], controller'.speeds[i], ServoTargets[i])]_vars
StepsResolve ==
    controller.accel >= SpeedSpacing /\ controller.decel >= SpeedSpacing
AngleInRange(a) ==
    /\ a.hi >= 0
    /\ a.lo >= 0
    /\ a.hi < AngleLimit * Limb \/ (a.hi = AngleLimit * Limb /\ a.lo = 0)
C11_AnglesInRange == \A i \in Joints : AngleInRange(controller.angles[i])

\* an update has just clamped a joint at the lower stop while it was still
\* retracting at full speed
C11_Witness ==
    /\ op = "ServoController::update"
    /\ servoCommands[UnitJoint] = "L"
    /\ controller.speeds[UnitJoint] = -2 * FloatOne
    /\ controller.angles[UnitJoint] = Angle(0)

\* C12: every servo update changes each joint's speed by at most the step in
\* use (accel when the speed rises, decel when it falls), and no update takes a
\* speed from one sign to the other: a reversed joint passes through a speed of
\* exactly zero.
ServoUpdated == op' = "ServoController::update"
StepInUse(i) ==
    IF controller.speeds[i] < ServoTargets[i] THEN controller.accel
    ELSE controller.decel
SpeedChange(i) == Abs(controller'.speeds[i] - controller.speeds[i])
SignFlips(i) ==
    \/ controller.speeds[i] > 0 /\ controller'.speeds[i] < 0
    \/ controller.speeds[i] < 0 /\ controller'.speeds[i] > 0
C12_ReversalThroughZero ==
    [][ServoUpdated =>
        \A i \in Joints : SpeedChange(i) <= StepInUse(i) /\ ~SignFlips(i)]_vars

\* C12 as amended: every servo update moves each joint's speed toward its
\* target and never past it, by at most the step in use plus the rounding of
\* one float addition (half the spacing of the floats below maxSpeed, 2^-24);
\* the two speeds on either side of a change of sign are therefore within one
\* such step of each other, and the speed need not take the value zero.  The
\* only other step that changes a speed is emergencyStop.
RoundingSlack == SpeedSpacing \div 2
SpeedsChangeBy ==
    [][controller'.speeds # controller.speeds =>
        op' \in {"ServoController::update", "ServoController::emergencyStop"}]_vars
C12_ReversalBounded ==
    /\ [][ServoUpdated =>
            \A i \in Joints :
                /\ Toward(controller.speeds[i], controller'.speeds[i], ServoTargets[i])
                /\ SpeedChange(i) <= StepInUse(i) + RoundingSlack]_vars
    /\ SpeedsChangeBy

\* the configured steps: a joint extended for three updates and then reversed
\* has just gone from 2^-27 to 2^-27 - 0.05 in one update
C12_Witness ==
    /\ op = "ServoController::update"
    /\ controller.accel = DefaultAccel
    /\ controller.decel = DefaultDecel
    /\ servoCommands[UnitJoint] = "L"
    /\ controller.speeds[UnitJoint] = 2 - DefaultDecel

\* C13: after a motor command and silence past the timeout, the motor currents
\* come down to 0 by ramp steps: the failsafe check that trips changes neither
\* current by more than pwmStep.
TripStep ==
    /\ pc = "failsafe"
    /\ ~failsafeTriggered
    /\ USub(now, lastCommandTime) > FAILSAFE_TIMEOUT
CurrentChange(m, n) == Abs(n.currentPWM - m.currentPWM)
C13_TripRampsDown ==
    [][TripStep =>
        /\ CurrentChange(leftMotor, leftMotor') <= leftMotor.pwmStep
        /\ CurrentChange(rightMotor, rightMotor') <= rightMotor.pwmStep]_vars

\* C13 as amended: the failsafe check that trips sets both currents (and both
\* targets) to 0 in that one step, whatever they had ramped to, and they are 0
\* after every later step for as long as the failsafe stays tripped.
C13_TripStopsAtOnce ==
    /\ [][TripStep =>
            /\ leftMotor'.currentPWM = 0 /\ leftMotor'.targetPWM = 0
            /\ rightMotor'.currentPWM = 0 /\ rightMotor'.targetPWM = 0]_vars
    /\ [][(failsafeTriggered /\ failsafeTriggered') =>
            leftMotor'.currentPWM = 0 /\ rightMotor'.currentPWM = 0]_vars

\* until the trip, a motor line dispatched after boot and followed by two more
\* motor intervals has the left current at two ramp steps or more
RampedBeforeTrip ==
    (/\ ~failsafeTriggered
     /\ lastCommandTime > BeginDelay
     /\ lastMotorTime >= lastCommandTime + 2 * MOTOR_INTERVAL)
        => leftMotor.currentPWM >= 2 * leftMotor.pwmStep

\* the failsafe check has just tripped in that situation: the currents were
\* past their second ramp step and are 0, with this iteration's motor update
\* still to come
C13_Witness ==
    /\ pc = "motor"
    /\ failsafeTriggered
    /\ USub(now, lastCommandTime) > FAILSAFE_TIMEOUT
    /\ lastCommandTime > BeginDelay
    /\ lastMotorTime >= lastCommandTime + 2 * MOTOR_INTERVAL
    /\ lastMotorTime < now
    /\ events[Len(events)] = SAFE_FAILSAFE_TRIGGER
    /\ leftMotor.currentPWM = 0 /\ rightMotor.currentPWM = 0

\* C14: a drain that ends with "50,-50" while the failsafe is tripped clears
\* the failsafe and sets the targets to 50 and -50 with both currents still 0;
\* every motor update then moves each current toward its target by at most
\* pwmStep, by something while it differs from the target, and not at all
\* once it equals it.
LastCall(calls) == calls[Len(calls)].cmd
RampsToward(m, n) ==
    /\ n.targetPWM = m.targetPWM
    /\ CurrentChange(m, n) <= m.pwmStep
    /\ Toward(m.currentPWM, n.currentPWM, m.targetPWM)
    /\ m.currentPWM # m.targetPWM => n.currentPWM # m.currentPWM
MotorsUpdated == pc = "motor" /\ lastMotorTime' # lastMotorTime
EmergencyStopStep == TripStep \/ pc = "setup"
C15_StopIsImmediate ==
    /\ [][EmergencyStopStep =>
            MotorStopped(leftMotor') /\ MotorStopped(rightMotor')]_vars
    /\ [][(\/ CurrentChange(leftMotor, leftMotor') > leftMotor.pwmStep
            \/ CurrentChange(rightMotor, rightMotor') > rightMotor.pwmStep)
           => TripStep]_vars

\* until the trip, a motor line dispatched after boot and followed by nine more
\* motor intervals has the left current at nine ramp steps or more
FullyRampedBeforeTrip ==
    (/\ ~failsafeTriggered
     /\ lastCommandTime > BeginDelay
     /\ lastMotorTime >= lastCommandTime + 9 * MOTOR_INTERVAL)
        => leftMotor.currentPWM >= 9 * leftMotor.pwmStep

\* the trip has just stopped motors whose currents had ramped to nine steps or
\* more
C15_Witness ==
    /\ pc = "motor"
    /\ failsafeTriggered
    /\ USub(now, lastCommandTime) > FAILSAFE_TIMEOUT
    /\ lastCommandTime > BeginDelay
    /\ lastMotorTime >= lastCommandTime + 9 * MOTOR_INTERVAL
    /\ lastMotorTime < now
    /\ MotorStopped(leftMotor) /\ MotorStopped(rightMotor)

\* C16: the failsafe trip (which calls the servo emergencyStop) sets every
\* joint's speed to 0 and leaves every angle as it was, and every later step
\* taken while the failsafe stays tripped, servo updates included, leaves
\* every angle as it was.
C16_StopHoldsAngles ==
    /\ [][TripStep =>
            /\ \A i \in Joints : controller'.speeds[i] = 0
            /\ controller'.angles = controller.angles]_vars
    /\ [][(failsafeTriggered /\ failsafeTriggered') =>
            controller'.angles = controller.angles]_vars

\* joint 3 had moved off centre when the failsafe tripped, and the servo update
\* of the tripped iteration has run
C16_Witness ==
    /\ pc = "led"
    /\ failsafeTriggered
    /\ USub(now, lastCommandTime) > FAILSAFE_TIMEOUT
    /\ lastServoTime = now
    /\ controller.angles[3] # Angle(CenterAngle)
    /\ SpeedsZero

\* C17: a drain (the only step that calls setTarget) leaves both currents and
\* all four PWM outputs as they were, and when the last line it dispatches is
\* "<a>,<b>" with a and b integers it leaves the left target at a and the right
\* target at b, each clamped to [-255, 255].
RECURSIVE Decimal(_)
Decimal(d) ==
    IF d = <<>> THEN 0
    ELSE 10 * Decimal(SubSeq(d, 1, Len(d) - 1)) + DigitVal(d[Len(d)])
IntValue(s) ==
    IF s[1] = "-" THEN -Decimal(Tail(s))
    ELSE IF s[1] = "+" THEN Decimal(Tail(s))
    ELSE Decimal(s)
CommaOf(cmd) ==
    CHOOSE k \in 1..Len(cmd) :
        /\ cmd[k] = ","
        /\ IsInt(SubSeq(cmd, 1, k - 1))
        /\ IsInt(SubSeq(cmd, k + 1, Len(cmd)))
LeftField(cmd) == IntValue(SubSeq(cmd, 1, CommaOf(cmd) - 1))
RightField(cmd) == IntValue(SubSeq(cmd, CommaOf(cmd) + 1, Len(cmd)))
Clamped(v) == Max(-PwmLimit, Min(PwmLimit, v))
OutputsKept(m, n) ==
    n.currentPWM = m.currentPWM /\ n.rpwm = m.rpwm /\ n.lpwm = m.lpwm
C17_TargetClamped ==
    [][DrainStep =>
        /\ OutputsKept(leftMotor, leftMotor')
        /\ OutputsKept(rightMotor, rightMotor')
        /\ (/\ NewCalls(dispatched, dispatched') # <<>>
            /\ MotorForm(LastCall(NewCalls(dispatched, dispatched'))))
           => /\ leftMotor'.targetPWM =
                     Clamped(LeftField(LastCall(NewCalls(dispatched, dispatched'))))
              /\ rightMotor'.targetPWM =
                     Clamped(RightField(LastCall(NewCalls(dispatched, dispatched'))))]_vars

\* "300,-300" has just been dispatched to motors running at 5 and -5: the
\* targets are the two limits and the outputs have not moved
C17_Witness ==
    /\ pc \in {"radio", "failsafe"}
    /\ dispatched # <<>>
    /\ LastCall(dispatched) = Line_Big
    /\ leftMotor.targetPWM = PwmLimit /\ leftMotor.currentPWM = 5
    /\ leftMotor.rpwm = 5
    /\ rightMotor.targetPWM = -PwmLimit /\ rightMotor.currentPWM = -5
    /\ rightMotor.lpwm = 5

\* C18: after every Motor::update and every Motor::emergencyStop the PWM pair
\* shows the current: the forward line carries a current that is not
\* negative and the reverse line the magnitude of a negative one, the other
\* line is 0, and both lie within [0, 255].
PwmReflects(m) ==
    /\ m.currentPWM >= 0 => (m.rpwm = m.currentPWM /\ m.lpwm = 0)
    /\ m.currentPWM < 0 => (m.lpwm = -m.currentPWM /\ m.rpwm = 0)
    /\ m.rpwm \in 0..PwmLimit
    /\ m.lpwm \in 0..PwmLimit
C18_PwmReflectsCurrent ==
    op \in {"Motor::update", "Motor::emergencyStop"} => PwmReflects(leftMotor)

\* an update has just landed on a negative target the step does not divide
C18_Witness ==
    /\ op = "Motor::update"
    /\ leftMotor.pwmStep = DefaultPwmStep
    /\ leftMotor.currentPWM = -8
    /\ leftMotor.lpwm = 8
    /\ leftMotor.rpwm = 0

\* C19: at every loop-iteration boundary each motor-active flag handed to the
\* LED controller says whether that motor's target is nonzero.
C19_FlagsMatchTargets ==
    pc = "loop" =>
        /\ isLeftMotorActive = (leftMotor.targetPWM # 0)
        /\ isRightMotorActive = (rightMotor.targetPWM # 0)

\* a boundary after a trip had cleared both flags and "50,-50" has set them
\* again
C19_Witness ==
    /\ pc = "loop"
    /\ Count(events, SAFE_FAILSAFE_TRIGGER) = 1
    /\ events[Len(events)] = SAFE_FAILSAFE_CLEAR
    /\ isLeftMotorActive /\ isRightMotorActive
    /\ leftMotor.targetPWM = 50 /\ rightMotor.targetPWM = -50

\* C20: a drain whose lines are all of the joint form S<d><c>, d in 1..6,
\* leaves the joint directions as those lines give them in order, each line
\* setting joint d alone to Retract for c = L, Extend for c = R and Hold for
\* any other or missing c, and leaves both motor targets unchanged.
JointOf(cmd) == DigitVal(cmd[2])
DirectionOf(cmd) ==
    IF Len(cmd) >= 3 /\ (cmd[3] = "L" \/ cmd[3] = "R") THEN cmd[3] ELSE NUL
RECURSIVE AfterJointLines(_, _)
AfterJointLines(dirs, calls) ==
    IF calls = <<>> THEN dirs
    ELSE AfterJointLines([dirs EXCEPT ![JointOf(calls[1].cmd)] = DirectionOf(calls[1].cmd)],
                         Tail(calls))
AllJointForm(calls) ==
    calls # <<>> /\ \A i \in 1..Len(calls) : JointForm(calls[i].cmd)
C20_JointLineSetsOne ==
    [][(DrainStep /\ AllJointForm(NewCalls(dispatched, dispatched')))
       => /\ servoCommands' =
                 AfterJointLines(servoCommands, NewCalls(dispatched, dispatched'))
          /\ leftMotor'.targetPWM = leftMotor.targetPWM
          /\ rightMotor'.targetPWM = rightMotor.targetPWM]_vars

\* with the motors commanded, "S3L" and then "S3" have been dispatched in one
\* iteration: joint 3 is back at Hold and the targets stand
C20_Witness ==
    /\ pc = "failsafe"
    /\ Len(dispatched) = 2
    /\ dispatched[1].cmd = Line_Joint
    /\ dispatched[2].cmd = Line_S3
    /\ AllJointsHold
    /\ leftMotor.targetPWM = 50 /\ rightMotor.targetPWM = -50

\* C21: a drain whose bytes fit the buffer dispatches, in order, the non-empty
\* runs of bytes between terminators, the first run continuing what the buffer
\* already held; a terminator that follows a terminator dispatches nothing;
\* the bytes after the last terminator stay in the buffer and the fill index is
\* their number (0 when the drain ends on a terminator).
IsTerminator(c) == c = LF \/ c = CR
Kept(line) == SubSeq(line, 1, Min(Len(line), MAX_CMD_LEN - 1))
FirstTerminator(bytes) ==
    CHOOSE k \in 1..Len(bytes) :
        IsTerminator(bytes[k]) /\ \A j \in 1..(k - 1) : ~IsTerminator(bytes[j])
RECURSIVE Framed(_, _)
Framed(pending, bytes) ==
    IF \A k \in 1..Len(bytes) : ~IsTerminator(bytes[k])
    THEN [lines |-> <<>>, rest |-> Kept(pending \o bytes)]
    ELSE LET k == FirstTerminator(bytes)
             line == Kept(pending \o SubSeq(bytes, 1, k - 1))
             after == Framed(<<>>, SubSeq(bytes, k + 1, Len(bytes)))
         IN  [lines |-> (IF line = <<>> THEN <<>> ELSE <<line>>) \o after.lines,
              rest |-> after.rest]
Commands(calls) == [i \in 1..Len(calls) |-> calls[i].cmd]
Fits(pending, bytes) == Len(pending) + Len(bytes) <= MAX_CMD_LEN - 1
C21_TerminatorDispatchesLine ==
    /\ [][(pc = "usb" /\ Fits(usbBuffer, usbStream)) =>
            /\ Commands(NewCalls(dispatched, dispatched')) =
                   Framed(usbBuffer, usbStream).lines
            /\ usbBuffer' = Framed(usbBuffer, usbStream).rest
            /\ usbIndex' = Len(usbBuffer')]_vars
    /\ [][(pc = "radio" /\ Fits(radioBuffer, radioStream)) =>
            /\ Commands(NewCalls(dispatched, dispatched')) =
                   Framed(radioBuffer, radioStream).lines
            /\ radioBuffer' = Framed(radioBuffer, radioStream).rest
            /\ radioIndex' = Len(radioBuffer')]_vars

\* "S3" was left in the USB buffer by an earlier iteration; this one has read
\* "L\n" and then "S3L\r\n" and dispatched "S3L" twice, once per line
C21_Witness ==
    /\ pc = "radio"
    /\ inputs = 3
    /\ Len(dispatched) = 2
    /\ dispatched[1].cmd = Line_Joint
    /\ dispatched[2].cmd = Line_Joint
    /\ usbIndex = 0
    /\ radioStream = <<>>
    /\ radioIndex = 0

\* C22: each channel's fill index stays within 0..MAX_CMD_LEN-1 (so the
\* terminator written at buffer[index] lies inside the 32-byte buffer) and
\* counts the bytes buffered; every drain dispatches each line cut to its
\* first MAX_CMD_LEN-1 bytes, the bytes beyond them being dropped.
IndexInBuffer(buffer, index) ==
    index \in 0..(MAX_CMD_LEN - 1) /\ Len(buffer) = index
C22_IndexWithinBuffer ==
    /\ [](IndexInBuffer(usbBuffer, usbIndex) /\ IndexInBuffer(radioBuffer, radioIndex))
    /\ [][pc = "usb" =>
            /\ Commands(NewCalls(dispatched, dispatched')) =
                   Framed(usbBuffer, usbStream).lines
            /\ usbBuffer' = Framed(usbBuffer, usbStream).rest]_vars
    /\ [][pc = "radio" =>
            /\ Commands(NewCalls(dispatched, dispatched')) =
                   Framed(radioBuffer, radioStream).lines
            /\ radioBuffer' = Framed(radioBuffer, radioStream).rest]_vars

\* forty bytes and then a terminator have been read over three iterations:
\* the line dispatched is the first thirty-one of them
C22_Witness ==
    /\ pc = "failsafe"
    /\ inputs = 3
    /\ Len(dispatched) = 1
    /\ dispatched[1].cmd = [i \in 1..(MAX_CMD_LEN - 1) |-> "X"]
    /\ usbIndex = 0 /\ radioIndex = 0

\* the buffer is full and more bytes have been read into it
C22_FullWitness ==
    /\ pc = "radio"
    /\ usbIndex = MAX_CMD_LEN - 1
    /\ inputs = 2
    /\ radioIndex = 0 /\ radioStream = <<>>

\* C23: one drain reads every byte queued on its channel: it leaves the
\* stream empty and dispatches every complete line of the queue, as many as
\* there are and in arrival order, so the failsafe check and the updates of an
\* iteration run with nothing left unread.
AfterDrains == pc \in {"failsafe", "motor", "servo", "led"}
C23_DrainsWholeQueue ==
    /\ [](AfterDrains => (usbStream = <<>> /\ radioStream = <<>>))
    /\ [][pc = "usb" =>
            /\ usbStream' = <<>>
            /\ Len(dispatched') = Len(dispatched) + Len(Framed(usbBuffer, usbStream).lines)
            /\ Commands(NewCalls(dispatched, dispatched')) =
                   Framed(usbBuffer, usbStream).lines]_vars
    /\ [][pc = "radio" =>
            /\ radioStream' = <<>>
            /\ Len(dispatched') = Len(dispatched) + Len(Framed(radioBuffer, radioStream).lines)
            /\ Commands(NewCalls(dispatched, dispatched')) =
                   Framed(radioBuffer, radioStream).lines]_vars

\* the one burst received so far put "50,-50" and "S1R" on a channel, and both
\* have been dispatched in that order before the failsafe check
C23_Witness ==
    /\ pc = "failsafe"
    /\ inputs = 1
    /\ Commands(dispatched) = <<Line_Motor, Line_S1R>>
    /\ usbBuffer = <<>> /\ radioBuffer = <<>>
    /\ leftMotor.targetPWM = 50
    /\ servoCommands[1] = "R"

\* C24: once both channels have been drained (USB first, then radio, each in
\* arrival order), the motor targets are those of the last valid motor line
\* of the iteration, if it had one, and each joint's direction is that of the
\* last valid joint line naming that joint, if there was one.
ValidMotorCalls(calls) == {i \in 1..Len(calls) : MotorForm(calls[i].cmd)}
ValidJointCalls(calls, j) ==
    {i \in 1..Len(calls) : JointForm(calls[i].cmd) /\ JointOf(calls[i].cmd) = j}
Latest(indices) == CHOOSE i \in indices : \A k \in indices : k <= i
LastWriterWins(calls) ==
    /\ ValidMotorCalls(calls) # {} =>
          /\ leftMotor.targetPWM =
                 Clamped(LeftField(calls[Latest(ValidMotorCalls(calls))].cmd))
          /\ rightMotor.targetPWM =
                 Clamped(RightField(calls[Latest(ValidMotorCalls(calls))].cmd))
    /\ \A j \in Joints :
          ValidJointCalls(calls, j) # {} =>
              servoCommands[j] =
                  DirectionOf(calls[Latest(ValidJointCalls(calls, j))].cmd)
C24_LastWriterWins == pc = "failsafe" => LastWriterWins(dispatched)

\* C24, for iterations whose lines all begin with the joint marker or are two
\* integers around a comma: the same statement.
C24_WinsAmongValid ==
    (pc = "failsafe" /\ \A i \in 1..Len(dispatched) : ~NeitherForm(dispatched[i].cmd))
        => LastWriterWins(dispatched)

\* C25: the motor step of an iteration runs the two ramps and stamps
\* lastMotorTime with the iteration's time sample exactly when that sample is
\* MOTOR_INTERVAL or more past lastMotorTime, and otherwise leaves motors and
\* stamp alone; the servo step does the same with SERVO_INTERVAL and
\* lastServoTime.  Neither stamp is touched by any other step, a current moves
\* away from 0 and an angle moves only in such an update, and so two
\* consecutive motor updates are 10 or more apart and two consecutive servo
\* updates 20 or more.
MotorGateOpen == USub(now, lastMotorTime) >= MOTOR_INTERVAL
ServoGateOpen == USub(now, lastServoTime) >= SERVO_INTERVAL
C25_RampsOnCadence ==
    /\ [][pc = "motor" =>
            IF MotorGateOpen
            THEN /\ lastMotorTime' = now
                 /\ RampsToward(leftMotor, leftMotor')
                 /\ RampsToward(rightMotor, rightMotor')
            ELSE UNCHANGED <<lastMotorTime, leftMotor, rightMotor>>]_vars
    /\ [][pc = "servo" =>
            IF ServoGateOpen
            THEN lastServoTime' = now
            ELSE UNCHANGED <<lastServoTime, controller>>]_vars
    /\ [][lastMotorTime' # lastMotorTime =>
            /\ pc = "motor"
            /\ USub(lastMotorTime', lastMotorTime) >= MOTOR_INTERVAL]_vars
    /\ [][lastServoTime' # lastServoTime =>
            /\ pc = "servo"
            /\ USub(lastServoTime', lastServoTime) >= SERVO_INTERVAL]_vars
    /\ [][(\/ leftMotor'.currentPWM \notin {0, leftMotor.currentPWM}
            \/ rightMotor'.currentPWM \notin {0, rightMotor.currentPWM})
           => pc = "motor" /\ MotorGateOpen]_vars
    /\ [][controller'.angles # controller.angles
           => pc = "servo" /\ ServoGateOpen]_vars

\* an iteration 10 after the last motor and servo updates has just run its
\* motor step and passed its servo step: the current took one more ramp step
\* and the servo stamp stayed behind
C25_Witness ==
    /\ pc = "led"
    /\ lastMotorTime = now
    /\ USub(now, lastServoTime) = MOTOR_INTERVAL
    /\ lastServoTime > BeginDelay
    /\ leftMotor.currentPWM >= 2 * leftMotor.pwmStep
    /\ leftMotor.currentPWM < leftMotor.targetPWM

\* C26: the steps of an iteration follow one another in the order watchdog
\* feed and time sample, USB drain, radio drain, failsafe check, motor update,
\* servo update, LED update; the watchdog is fed once, by the first step; each
\* kind of effect belongs to its own step; and the failsafe check that trips
\* leaves both motors stopped and all speeds zero with the motor and servo
\* updates of that iteration still to come, which then write zero outputs.
StepOrder ==
    {<<"setup", "loop">>, <<"loop", "usb">>, <<"usb", "radio">>,
     <<"radio", "failsafe">>, <<"failsafe", "motor">>, <<"motor", "servo">>,
     <<"servo", "led">>, <<"led", "loop">>}
InIteration == pc \in {"usb", "radio", "failsafe", "motor", "servo", "led"}
C26_FixedStepOrder ==
    /\ [](InIteration => wdtFeeds = 1)
    /\ [][pc' # pc => <<pc, pc'>> \in StepOrder]_vars
    /\ [][wdtFeeds' > wdtFeeds => pc = "loop" /\ pc' = "usb"]_vars
    /\ [][now' # now => pc = "loop" /\ pc' = "usb"]_vars
    /\ [][dispatched' # dispatched /\ dispatched' # <<>> => DrainStep]_vars
    /\ [][(~failsafeTriggered /\ failsafeTriggered') => pc = "failsafe"]_vars
    /\ [][lastMotorTime' # lastMotorTime => pc = "motor"]_vars
    /\ [][lastServoTime' # lastServoTime => pc = "servo"]_vars
    /\ [][ledSys' # ledSys => pc = "led"]_vars
    /\ [][(pc = "failsafe" /\ ~failsafeTriggered /\ failsafeTriggered') =>
            /\ pc' = "motor"
            /\ MotorStopped(leftMotor') /\ MotorStopped(rightMotor')
            /\ SpeedsZero'
            /\ UNCHANGED <<lastMotorTime, lastServoTime>>]_vars
    /\ [][(pc \in {"motor", "servo"} /\ failsafeTriggered) =>
            /\ MotorStopped(leftMotor') /\ MotorStopped(rightMotor')
            /\ SpeedsZero']_vars

\* the failsafe check of an iteration has just tripped on a deadline set by
\* a command: one watchdog feed, lines drained, both motors stopped, and the
\* motor and servo updates of the iteration not yet run
C26_Witness ==
    /\ pc = "motor"
    /\ wdtFeeds = 1
    /\ failsafeTriggered
    /\ events[Len(events)] = SAFE_FAILSAFE_TRIGGER
    /\ lastCommandTime > BeginDelay
    /\ USub(now, lastCommandTime) > FAILSAFE_TIMEOUT
    /\ lastMotorTime < now /\ lastServoTime < now
    /\ lastMotorTime >= lastCommandTime
    /\ MotorStopped(leftMotor) /\ MotorStopped(rightMotor)
    /\ SpeedsZero

\* C27: every LED update whose clock reading is HEARTBEAT_SPEED or more past
\* the heartbeat's last toggle inverts the heartbeat pin and records the
\* reading; every other update, and every step that is not an LED update,
\* leaves pin and record alone.  Nothing else is consulted: not the motor
\* flags, the servo activity, the comms flag or the failsafe.
LedUpdated == pc = "led" /\ pc' = "loop"
HeartbeatDue == USub(clock, ledSys.t13) >= HEARTBEAT_SPEED
C27_HeartbeatUnconditional ==
    /\ [][LedUpdated =>
            IF HeartbeatDue
            THEN pins'.p13 = ~pins.p13 /\ ledSys'.t13 = clock
            ELSE pins'.p13 = pins.p13 /\ ledSys'.t13 = ledSys.t13]_vars
    /\ [][~LedUpdated => pins'.p13 = pins.p13 /\ ledSys'.t13 = ledSys.t13]_vars
    /\ [](pins.p13 = ledSys.s13)

\* the heartbeat has toggled a second time, a full period after the first,
\* in an update called with comms off and one motor active
C27_Witness ==
    /\ pc = "loop"
    /\ ledSys.t13 = BeginDelay + 2 * HEARTBEAT_SPEED
    /\ clock = ledSys.t13
    /\ ~pins.p13
    /\ ~serialCommunicationFlag
    /\ isLeftMotorActive /\ ~isRightMotorActive

\* C28: an LED update called with neither motor active leaves both scanner
\* pins off; one called with exactly one motor active leaves the other
\* side's pin off and inverts the active side's pin if a scan period or more
\* has passed since the single-side blinker last toggled, and otherwise leaves
\* the active side's pin as it was.
NoneActive == ~isLeftMotorActive /\ ~isRightMotorActive
OneActive == isLeftMotorActive # isRightMotorActive
ActivePin == IF isLeftMotorActive THEN "p10" ELSE "p11"
OtherPin == IF isLeftMotorActive THEN "p11" ELSE "p10"
SingleDue == USub(clock, ledSys.tSingle) >= SCAN_SPEED
C28_SingleSideToggles ==
    /\ [][(LedUpdated /\ NoneActive) => ~pins'.p10 /\ ~pins'.p11]_vars
    /\ [][(LedUpdated /\ OneActive) =>
            /\ ~pins'[OtherPin]
            /\ IF SingleDue
               THEN pins'[ActivePin] = ~pins[ActivePin]
               ELSE pins'[ActivePin] = pins[ActivePin]]_vars

\* C28 as amended: with neither motor active both scanner pins are off after
\* the update; with exactly one active the other side's pin is off, and the
\* active side's pin is written only if a scan period or more has passed
\* since the single-side blinker last toggled: the blinker's stored state,
\* which both sides share, is inverted and written to the pin.  That inverts
\* the pin whenever the pin showed the stored state.
C28_SingleSideBlinks ==
    /\ [][(LedUpdated /\ NoneActive) => ~pins'.p10 /\ ~pins'.p11]_vars
    /\ [][(LedUpdated /\ OneActive) =>
            /\ ~pins'[OtherPin]
            /\ IF SingleDue
               THEN /\ ledSys'.sSingle = ~ledSys.sSingle
                    /\ ledSys'.tSingle = clock
                    /\ pins'[ActivePin] = ledSys'.sSingle
                    /\ pins[ActivePin] = ledSys.sSingle =>
                           pins'[ActivePin] = ~pins[ActivePin]
               ELSE /\ pins'[ActivePin] = pins[ActivePin]
                    /\ ledSys'.sSingle = ledSys.sSingle
                    /\ ledSys'.tSingle = ledSys.tSingle]_vars
    /\ [][(LedUpdated /\ ~OneActive) =>
            ledSys'.sSingle = ledSys.sSingle /\ ledSys'.tSingle = ledSys.tSingle]_vars

\* within one millisecond the sweep lit the left pin and then, with the
\* right motor no longer active, the single-side blinker fired for the left
\* side: the pin was on and is on, the right pin is off
C28_Witness ==
    /\ pc = "loop"
    /\ isLeftMotorActive /\ ~isRightMotorActive
    /\ ledSys.tSingle = clock
    /\ ledSys.lastScanTime = clock
    /\ ledSys.scannerIdx = 0 /\ ledSys.scannerStep = 1
    /\ ledSys.sSingle
    /\ pins.p10 /\ ~pins.p11

\* C29: an LED update called with both motors active does nothing to the
\* sweep until a scan period has passed since its last phase, and then runs
\* exactly one phase: phases 0 and 2 light the current element, phase 1
\* puts it out, phase 3 puts it out, moves to the other element and lights
\* that one, reversing the direction if the move ran off an end.  The element
\* index is always 0 or 1, and updates with fewer than two motors active
\* leave the sweep where it was.
BothActive == isLeftMotorActive /\ isRightMotorActive
ScanDue == USub(clock, ledSys.lastScanTime) >= SCAN_SPEED
Sweep(led) == <<led.scannerIdx, led.scannerDir, led.scannerStep, led.lastScanTime>>
CurrentPin == ScannerPin(ledSys.scannerIdx)
RanOffEnd == ledSys.scannerIdx + ledSys.scannerDir \notin {0, 1}
C29_SweepPhases ==
    /\ [](/\ ledSys.scannerIdx \in {0, 1}
          /\ ledSys.scannerStep \in 0..3
          /\ ledSys.scannerDir \in {-1, 1})
    /\ [][(LedUpdated /\ BothActive /\ ~ScanDue) =>
            /\ Sweep(ledSys') = Sweep(ledSys)
            /\ pins'.p10 = pins.p10 /\ pins'.p11 = pins.p11]_vars
    /\ [][(LedUpdated /\ BothActive /\ ScanDue) =>
            /\ ledSys'.lastScanTime = clock
            /\ ledSys'.scannerStep = (ledSys.scannerStep + 1) % 4
            /\ ledSys.scannerStep \in {0, 2} =>
                  /\ pins'[CurrentPin]
                  /\ ledSys'.scannerIdx = ledSys.scannerIdx
                  /\ ledSys'.scannerDir = ledSys.scannerDir
            /\ ledSys.scannerStep = 1 =>
                  /\ ~pins'[CurrentPin]
                  /\ ledSys'.scannerIdx = ledSys.scannerIdx
                  /\ ledSys'.scannerDir = ledSys.scannerDir
            /\ ledSys.scannerStep = 3 =>
                  /\ ledSys'.scannerIdx = 1 - ledSys.scannerIdx
                  /\ ~pins'[CurrentPin]
                  /\ pins'[ScannerPin(ledSys'.scannerIdx)]
                  /\ ledSys'.scannerDir =
                         IF RanOffEnd THEN -ledSys.scannerDir
                                      ELSE ledSys.scannerDir]_vars
    /\ [][(LedUpdated /\ ~BothActive) => Sweep(ledSys') = Sweep(ledSys)]_vars

\* with both motors active the sweep has just completed its second cycle: it
\* is back on element 0, now heading down, with that element lit and the
\* other off
C29_Witness ==
    /\ pc = "loop"
    /\ BothActive
    /\ ledSys.lastScanTime = clock
    /\ clock >= BeginDelay + 8 * SCAN_SPEED
    /\ ledSys.scannerIdx = 0
    /\ ledSys.scannerDir = -1
    /\ ledSys.scannerStep = 0
    /\ pins.p10 /\ ~pins.p11

\* C30: an LED update called with the servo controller inactive leaves the
\* beacon pin on; one called with it active inverts the pin if BLINK_SPEED or
\* more has passed since the beacon's last toggle and otherwise leaves it as
\* it was; no other step touches the pin.
BeaconInput == ServoIsActive(controller)
BeaconDue == USub(clock, ledSys.lastBeaconTime) >= BLINK_SPEED
C30_BeaconSolidOrBlinking ==
    /\ [][(LedUpdated /\ ~BeaconInput) =>
            pins'.p9 /\ ledSys'.lastBeaconTime = ledSys.lastBeaconTime]_vars
    /\ [][(LedUpdated /\ BeaconInput) =>
            IF BeaconDue
            THEN pins'.p9 = ~pins.p9 /\ ledSys'.lastBeaconTime = clock
            ELSE /\ pins'.p9 = pins.p9
                 /\ ledSys'.lastBeaconTime = ledSys.lastBeaconTime]_vars
    /\ [][~LedUpdated => pins'.p9 = pins.p9]_vars

\* with the input true, after a single change of the flags, an update has
\* just toggled the beacon off
C30_Witness ==
    /\ pc = "loop"
    /\ BeaconInput
    /\ ~pins.p9
    /\ ledSys.lastBeaconTime = clock
    /\ clock >= BeginDelay + 3 * BLINK_SPEED
    /\ inputs = 1

\* C31: the failsafe events in the log, taken in order, are trigger, clear,
\* trigger, clear, ...: the first is a trigger and no two neighbours are the
\* same.  A step logs a failsafe event exactly when it changes the tripped
\* flag, one event per change, and the flag is set exactly when the last
\* failsafe event is a trigger.
IsFailsafeEvent(e) == e \in {SAFE_FAILSAFE_TRIGGER, SAFE_FAILSAFE_CLEAR}
FailsafeEvents(log) == SelectSeq(log, IsFailsafeEvent)
Alternates(fe) ==
    \A i \in 1..Len(fe) :
        fe[i] = IF i % 2 = 1 THEN SAFE_FAILSAFE_TRIGGER ELSE SAFE_FAILSAFE_CLEAR
C31_FailsafeEventsAlternate ==
    /\ [](Alternates(FailsafeEvents(events)))
    /\ [](failsafeTriggered <=> Len(FailsafeEvents(events)) % 2 = 1)
    /\ [][Len(FailsafeEvents(events')) =
            Len(FailsafeEvents(events))
                + (IF failsafeTriggered' # failsafeTriggered THEN 1 ELSE 0)]_vars

\* the failsafe has tripped, been cleared by a command and tripped again
C31_Witness ==
    /\ FailsafeEvents(events) =
          <<SAFE_FAILSAFE_TRIGGER, SAFE_FAILSAFE_CLEAR, SAFE_FAILSAFE_TRIGGER>>
    /\ failsafeTriggered
    /\ pc = "motor"

\* C32: once setup has run the log begins with boot-start or
\* prior-watchdog-reset, then actuator-init-start, motors-ready, servos-ready
\* and boot-complete; none of these codes occurs again or anywhere else, so
\* every failsafe event comes after boot-complete; setup ends by setting the
\* deadline's origin to the clock; and with no byte received since boot the
\* first trip is decided on a time sample more than FAILSAFE_TIMEOUT past the
\* end of setup.
BootCodes ==
    {SYS_BOOT_START, ERR_WATCHDOG_RESET, ACT_INIT_START, ACT_MOTORS_READY,
     ACT_SERVOS_READY, SYS_BOOT_COMPLETE}
BootLogs ==
    {<<first, ACT_INIT_START, ACT_MOTORS_READY, ACT_SERVOS_READY, SYS_BOOT_COMPLETE>> :
        first \in {SYS_BOOT_START, ERR_WATCHDOG_RESET}}
Booted == pc # "setup"
FirstTrip ==
    /\ Count(events, SAFE_FAILSAFE_TRIGGER) = 0
    /\ Count(events', SAFE_FAILSAFE_TRIGGER) > 0
C32_BootThenDeadline ==
    /\ [](~Booted => events = <<>>)
    /\ [](Booted =>
            /\ Len(events) >= 5
            /\ SubSeq(events, 1, 5) \in BootLogs
            /\ \A i \in 6..Len(events) : events[i] \notin BootCodes)
    /\ [][(FirstTrip /\ inputs = 0) =>
            USub(now, BeginDelay) > FAILSAFE_TIMEOUT]_vars
    /\ [][pc = "setup" => lastCommandTime' = clock' /\ clock' = BeginDelay]_vars

\* booted after a watchdog reset and left without input, the program has
\* tripped at the first time sample past the deadline: the log is the five
\* boot codes and the trigger
C32_Witness ==
    /\ pc = "motor"
    /\ inputs = 0
    /\ failsafeTriggered
    /\ now = BeginDelay + FAILSAFE_TIMEOUT + 1
    /\ events = <<ERR_WATCHDOG_RESET, ACT_INIT_START, ACT_MOTORS_READY,
                  ACT_SERVOS_READY, SYS_BOOT_COMPLETE, SAFE_FAILSAFE_TRIGGER>>

\* C33: an iteration that dispatched a command reaches its motor update, and
\* ends, with the failsafe not tripped, whatever the clock did between the
\* iteration's time sample and the command handler's own reading of it.
DispatchedThisIteration == pc \in {"motor", "servo", "led"} /\ dispatched # <<>>
C33_NoTripAfterDispatch == DispatchedThisIteration => ~failsafeTriggered

\* C33, while the clock stands still from the time sample to the end of the
\* drains: the same statement.
C33_NoTripWhenClockStill ==
    (DispatchedThisIteration /\ lastCommandTime <= now) => ~failsafeTriggered

\* C34: in every state each motor's target and current lie in [-255, 255],
\* whatever targets were asked for (300 and -300 among them), whatever the
\* ramp step (600 among them), and however updates and emergency stops are
\* interleaved.
MotorInRange(m) ==
    /\ m.targetPWM \in (-PwmLimit)..PwmLimit
    /\ m.currentPWM \in (-PwmLimit)..PwmLimit
C34_MotorsInRange == MotorInRange(leftMotor) /\ MotorInRange(rightMotor)

\* a motor whose ramp step is larger than the whole range was asked for more
\* than the limit and updated: target and current are both at the limit
C34_Witness ==
    /\ op = "Motor::update"
    /\ leftMotor.pwmStep > 2 * PwmLimit
    /\ leftMotor.targetPWM = -PwmLimit
    /\ leftMotor.currentPWM = -PwmLimit
    /\ leftMotor.lpwm = PwmLimit

\* C35: a drain of a channel whose waiting bytes hold no terminator
\* dispatches nothing and changes no motor, flag, joint direction, servo
\* speed, deadline, tripped flag or log entry; it appends the bytes to that
\* channel's buffer, up to the buffer's limit.  A channel's buffer and index
\* are changed by that channel's drain and by no other step, so a partial
\* line stays as it is through the other channel's bytes and dispatches and
\* from one iteration to the next.
NoTerminator(bytes) == \A k \in 1..Len(bytes) : ~IsTerminator(bytes[k])
CommandState ==
    <<lastCommandTime, failsafeTriggered, events, servoCommands, motors,
      controller, dispatched>>
C35_PartialLineInert ==
    /\ [][(pc = "usb" /\ pc' = "radio" /\ NoTerminator(usbStream)) =>
            /\ UNCHANGED CommandState
            /\ usbBuffer' = Kept(usbBuffer \o usbStream)
            /\ usbIndex' = Len(usbBuffer')]_vars
    /\ [][(pc = "radio" /\ pc' = "failsafe" /\ NoTerminator(radioStream)) =>
            /\ UNCHANGED CommandState
            /\ radioBuffer' = Kept(radioBuffer \o radioStream)
            /\ radioIndex' = Len(radioBuffer')]_vars
    /\ [][pc # "usb" => UNCHANGED <<usbBuffer, usbIndex>>]_vars
    /\ [][pc # "radio" => UNCHANGED <<radioBuffer, radioIndex>>]_vars

\* the failsafe tripped while the USB buffer held "S3"; in a later iteration
\* the radio delivered a motor line, which was dispatched and cleared the
\* trip, and the USB buffer still holds "S3"
C35_Witness ==
    /\ pc = "failsafe"
    /\ usbBuffer = Burst_Head /\ usbIndex = 2
    /\ Commands(dispatched) = <<Line_Motor>>
    /\ dispatched[1].tripped
    /\ ~failsafeTriggered
    /\ inputs = 2
    /\ radioBuffer = <<>>

\* C36: a drain that dispatches while the failsafe is tripped leaves it
\* armed again, with the deadline counted from that drain; and every failsafe
\* check that finds the failsafe armed and its time sample more than
\* FAILSAFE_TIMEOUT past the last command trips it, stops both motors, zeroes
\* every servo speed and sets every joint to Hold, however many trips and
\* clears came before.  So no iteration gets past its failsafe check with the
\* deadline passed and the failsafe not tripped.
Overdue == USub(now, lastCommandTime) > FAILSAFE_TIMEOUT
AllStopped ==
    /\ MotorStopped(leftMotor)
    /\ MotorStopped(rightMotor)
    /\ SpeedsZero
    /\ AllJointsHold
    /\ ~isLeftMotorActive /\ ~isRightMotorActive
C36_RearmsAfterClear ==
    /\ [][(DrainStep /\ failsafeTriggered /\ dispatched' # dispatched) =>
            ~failsafeTriggered' /\ lastCommandTime' = clock]_vars
    /\ [][(pc = "failsafe" /\ pc' = "motor" /\ ~failsafeTriggered /\ Overdue) =>
            /\ failsafeTriggered'
            /\ AllStopped'
            /\ Count(events', SAFE_FAILSAFE_TRIGGER) =
                  Count(events, SAFE_FAILSAFE_CLEAR) + 1]_vars
    /\ []((pc \in {"motor", "servo", "led"} /\ Overdue) =>
             (failsafeTriggered /\ ActuatorsZero))

\* the failsafe has just tripped for the third time, after two clears, the
\* last of them by a motor line whose ramp had begun
C36_Witness ==
    /\ pc = "motor"
    /\ failsafeTriggered
    /\ Count(events, SAFE_FAILSAFE_TRIGGER) = 3
    /\ Count(events, SAFE_FAILSAFE_CLEAR) = 2
    /\ events[Len(events)] = SAFE_FAILSAFE_TRIGGER
    /\ lastMotorTime = lastCommandTime
    /\ lastCommandTime > BeginDelay + 2 * FAILSAFE_TIMEOUT
    /\ AllStopped

\* C37: an iteration that has begun, with whatever bytes are waiting on the
\* two channels, reaches its end; each drain is one pass that leaves its
\* stream empty, and it is taken whether or not the waiting bytes complete a
\* line.
C37_IterationTerminates ==
    /\ InIteration ~> (pc = "loop")
    /\ [][(pc = "usb" /\ pc' # pc) => (pc' = "radio" /\ usbStream' = <<>>)]_vars
    /\ [][(pc = "radio" /\ pc' # pc) => (pc' = "failsafe" /\ radioStream' = <<>>)]_vars

\* an iteration has ended after draining forty bytes without a terminator
\* from USB and an unfinished "S3" from the radio
C37_Witness ==
    /\ pc = "loop"
    /\ inputs = 3
    /\ usbStream = <<>> /\ radioStream = <<>>
    /\ usbIndex = MAX_CMD_LEN - 1
    /\ usbBuffer = [i \in 1..(MAX_CMD_LEN - 1) |-> "X"]
    /\ radioBuffer = Burst_Head

(***************************************************************************)
(* The program late in a run, WrapLead milliseconds before the millisecond *)
(* counter wraps.  No line has arrived since boot: the failsafe tripped    *)
(* long ago and every iteration since found the actuators at rest.  The    *)
(* clock advances between iterations, by about a motor interval during the *)
(* first WrapWindow milliseconds and by about the failsafe timeout at any  *)
(* time, and whole motor lines arrive on USB.                              *)
(***************************************************************************)
WrapLead == 15
WrapWindow == 40
MaxWrapAdvance == 545
MaxWrapArrivals == 2

\* the time of the last iteration before the window opens
WrapStart == ClockMod - WrapLead

WrapTicks == {MOTOR_INTERVAL - 1, MOTOR_INTERVAL, FAILSAFE_TIMEOUT, FAILSAFE_TIMEOUT + 1}

InitWrap ==
    /\ clock = WrapStart
    /\ pc = "loop"
    /\ now = WrapStart
    /\ lastCommandTime = BeginDelay
    /\ lastMotorTime = WrapStart
    /\ lastServoTime = WrapStart
    /\ failsafeTriggered = TRUE
    /\ isLeftMotorActive = FALSE
    /\ isRightMotorActive = FALSE
    /\ serialCommunicationFlag = TRUE
    /\ servoCommands = [i \in Joints |-> NUL]
    /\ leftMotor = NewMotor(DefaultPwmStep)
    /\ rightMotor = NewMotor(DefaultPwmStep)
    /\ controller = NewServoController(DefaultAccel, DefaultDecel)
    /\ usbBuffer = <<>>
    /\ usbIndex = 0
    /\ radioBuffer = <<>>
    /\ radioIndex = 0
    /\ usbStream = <<>>
    /\ radioStream = <<>>
    /\ events = <<SYS_BOOT_START, ACT_INIT_START, ACT_MOTORS_READY, ACT_SERVOS_READY,
                  SYS_BOOT_COMPLETE, SAFE_FAILSAFE_TRIGGER>>
    /\ ledSys = [NewLedController EXCEPT !.beaconStep = 1, !.t24 = WrapStart,
                                         !.t13 = WrapStart]
    /\ pins = [NoPins EXCEPT !.p9 = TRUE]
    /\ wdtFeeds = 0
    /\ dispatched = <<>>
    /\ held = TRUE
    /\ inputs = 0
    /\ op = "none"

TickWrap(d) ==
    /\ pc = "loop"
    /\ now = clock
    /\ USub(clock, WrapStart) + d <= MaxWrapAdvance
    /\ d < FAILSAFE_TIMEOUT => USub(clock, WrapStart) + d <= WrapWindow
    /\ clock' = (clock + d) % ClockMod
    /\ UNCHANGED <<pc, now, timers, failsafeTriggered, serialCommunicationFlag,
                   servoCommands, motors, controller, framers, streams, events,
                   leds, wdtFeeds, dispatched, held, inputs, op>>

ArriveWrap ==
    /\ pc = "loop"
    /\ usbStream = <<>>
    /\ inputs < MaxWrapArrivals
    /\ inputs' = inputs + 1
    /\ usbStream' = Line_Motor \o <<LF>>
    /\ UNCHANGED <<clock, pc, now, timers, failsafeTriggered,
                   serialCommunicationFlag, servoCommands, motors, controller,
                   framers, radioStream, events, leds, wdtFeeds, dispatched, held,
                   op>>

NextWrap ==
    \/ LoopStep
    \/ \E d \in WrapTicks : TickWrap(d)
    \/ ArriveWrap

SpecWrap == InitWrap /\ [][NextWrap]_vars

\* the stamp was taken before the counter wrapped and the sample after it
WrappedSince(last) == last >= WrapStart /\ now < WrapStart

\* the time that has really passed between such a stamp and the sample
TrueElapsed(last) == (now + ClockMod) - last

\* C38: when the millisecond counter has wrapped between the stored stamp and
\* the time sample, the failsafe check and the motor and servo cadence gates
\* decide as the true elapsed time does: the failsafe trips exactly when more
\* than FAILSAFE_TIMEOUT has passed, the motors are updated exactly when at
\* least MOTOR_INTERVAL has passed, the servos exactly when at least
\* SERVO_INTERVAL has passed.
C38_WrapSafeGates ==
    /\ [][(pc = "failsafe" /\ pc' = "motor" /\ ~failsafeTriggered
           /\ WrappedSince(lastCommandTime))
          => (failsafeTriggered' <=> TrueElapsed(lastCommandTime) > FAILSAFE_TIMEOUT)]_vars
    /\ [][(pc = "motor" /\ pc' = "servo" /\ WrappedSince(lastMotorTime))
          => /\ lastMotorTime' = IF TrueElapsed(lastMotorTime) >= MOTOR_INTERVAL
                                 THEN now ELSE lastMotorTime
             /\ (TrueElapsed(lastMotorTime) < MOTOR_INTERVAL => UNCHANGED motors)]_vars
    /\ [][(pc = "servo" /\ pc' = "led" /\ WrappedSince(lastServoTime))
          => /\ lastServoTime' = IF TrueElapsed(lastServoTime) >= SERVO_INTERVAL
                                 THEN now ELSE lastServoTime
             /\ (TrueElapsed(lastServoTime) < SERVO_INTERVAL => UNCHANGED controller)]_vars

\* the failsafe has just tripped on a sample taken after the wrap, 501 ms after
\* a line stamped before it; the motors were last updated before the wrap too
C38_Witness ==
    /\ pc = "motor"
    /\ failsafeTriggered
    /\ WrappedSince(lastCommandTime)
    /\ WrappedSince(lastMotorTime)
    /\ TrueElapsed(lastCommandTime) = FAILSAFE_TIMEOUT + 1
    /\ events[Len(events)] = SAFE_FAILSAFE_TRIGGER
    /\ inputs = 1

\* C39: whatever the motor-active flags are from one LED update to the next,
\* the two scanner indicators (pins 10 and 11) are never lit together.
C39_ScannerNeverBothLit == ~(pins.p10 /\ pins.p11)

====
